---- MODULE Spec2Model ----
(***************************************************************************)
(* A model of the local artifact / metadata store of bighealth:            *)
(*   src/modules/qkview_directory_utils.py   directories and the ledger    *)
(*   src/modules/ihealth_qkview_download.py  naming and the freshness gate *)
(*                                                                         *)
(* JSON documents are modelled as tagged values: [t |-> tag, v |-> value]  *)
(* with tag "m" (mapping: v is a function from key strings to values),     *)
(* "s" (string), "n" (number), "b" (boolean), "l" (list) and "null".       *)
(* A Python dict is the function itself.                                    *)
(*                                                                         *)
(* Several specifications share the variables:                             *)
(*   Spec        the directory store and its operations                    *)
(*   SpecMerge   deep_merge on arbitrary bounded documents                 *)
(*   SpecNaming  the two hostname extractors                               *)
(*   SpecGate    the pre-download freshness gate                           *)
(***************************************************************************)
EXTENDS Integers, Sequences, FiniteSets, TLC

VARIABLES
    store,   \* base path: directory name -> [meta |-> metadata.json state]
    now,     \* the clock datetime.now() reads
    ops,     \* number of store operations performed so far
    last,    \* the last operation, its arguments and its result
    inp,     \* input of the pure-function specifications
    out      \* their result

vars == <<store, now, ops, last, inp, out>>

(***************************************************************************)
(* Bounds.                                                                 *)
(***************************************************************************)
MaxLedgerNodes == 2
MaxUpdateNodes == 2
MaxClock == 1
MaxOps == 3

(***************************************************************************)
(* JSON values.                                                            *)
(***************************************************************************)
Str(s) == [t |-> "s", v |-> s]
Num(n) == [t |-> "n", v |-> n]
Bool(b) == [t |-> "b", v |-> b]
Map(d) == [t |-> "m", v |-> d]
List(l) == [t |-> "l", v |-> l]
Null == [t |-> "null", v |-> 0]
EmptyDict == <<>>

\* isinstance(x, dict)
IsDict(x) == x.t = "m"

\* Python truthiness of a JSON value (bool(x))
Truthy(x) ==
    CASE x.t = "null" -> FALSE
      [] x.t = "b" -> x.v
      [] x.t = "n" -> x.v # 0
      [] x.t = "s" -> x.v # ""
      [] x.t = "l" -> x.v # <<>>
      [] x.t = "m" -> DOMAIN x.v # {}

(***************************************************************************)
(* update_qkview_metadata.deep_merge: dict1 after deep_merge(dict1, dict2) *)
(***************************************************************************)
RECURSIVE deep_merge_shallow(_, _)
deep_merge_shallow(dict1, dict2) ==
    [key \in DOMAIN dict1 \cup DOMAIN dict2 |->
        IF key \in DOMAIN dict2 THEN dict2[key] ELSE dict1[key]]

RECURSIVE deep_merge(_, _)
deep_merge(dict1, dict2) ==
    [key \in DOMAIN dict1 \cup DOMAIN dict2 |->
        IF key \notin DOMAIN dict2 THEN dict1[key]
        ELSE IF key \in DOMAIN dict1 /\ IsDict(dict1[key]) /\ IsDict(dict2[key])
             THEN Map(deep_merge(dict1[key].v, dict2[key].v))
             ELSE dict2[key]]

\* dict1[key] = value
SetKey(d, key, value) ==
    [k \in DOMAIN d \cup {key} |-> IF k = key THEN value ELSE d[k]]

\* datetime.now().isoformat() when the clock reads t
isoformat(t) == Str("T" \o ToString(t))

(***************************************************************************)
(* update_qkview_metadata, lines 352-365: the document written back when   *)
(* the ledger read is `metadata` and the clock reads t.                    *)
(***************************************************************************)
merged_metadata(metadata, updates, t) ==
    SetKey(deep_merge(metadata, updates), "last_updated", isoformat(t))

(***************************************************************************)
(* Key paths of a document.                                                *)
(***************************************************************************)
Keys == {"a", "b"}

RECURSIVE Has(_, _)
Has(d, p) ==
    /\ p # <<>>
    /\ Head(p) \in DOMAIN d
    /\ \/ Len(p) = 1
       \/ /\ IsDict(d[Head(p)])
          /\ Has(d[Head(p)].v, Tail(p))

RECURSIVE Get(_, _)
Get(d, p) == IF Len(p) = 1 THEN d[Head(p)] ELSE Get(d[Head(p)].v, Tail(p))

IsPrefix(p, q) == Len(p) <= Len(q) /\ SubSeq(q, 1, Len(p)) = p
IsProperPrefix(p, q) == Len(p) < Len(q) /\ SubSeq(q, 1, Len(p)) = p

MaxPathLen == IF MaxLedgerNodes > MaxUpdateNodes THEN MaxLedgerNodes ELSE MaxUpdateNodes
AllPaths == UNION {[1..n -> Keys] : n \in 1..MaxPathLen}

\* a leaf is a non-mapping value or an empty mapping
IsLeaf(x) == ~IsDict(x) \/ x.v = EmptyDict
LeafPaths(d) == {p \in AllPaths : Has(d, p) /\ IsLeaf(Get(d, p))}

(***************************************************************************)
(* Bounded documents: the dicts over Keys with at most n entries in all,   *)
(* scalars drawn from sc.                                                  *)
(***************************************************************************)
RECURSIVE DictsUpTo(_, _)
RECURSIVE ValsUpTo(_, _)
ValsUpTo(n, sc) == {Num(x) : x \in sc} \cup {Map(d) : d \in DictsUpTo(n, sc)}
DictsUpTo(n, sc) ==
    {EmptyDict}
    \cup (IF n >= 1
          THEN UNION {{(k :> x) : x \in ValsUpTo(n - 1, sc)} : k \in Keys}
          ELSE {})
    \cup (IF n >= 2
          THEN UNION {{("a" :> x) @@ ("b" :> y) :
                          x \in ValsUpTo(i, sc), y \in ValsUpTo(n - 2 - i, sc)} :
                      i \in 0..(n - 2)}
          ELSE {})

(***************************************************************************)
(* SpecMerge: a ledger e, then two merges applied in both orders.          *)
(*   inp = [e, u1, u2]; out = [step, a, b]: a is the ledger after merging  *)
(*   u1 then u2, b after u2 then u1.                                        *)
(***************************************************************************)
NoLast ==
    [op |-> "none", id |-> "", raised |-> FALSE, outcome |-> "",
     found |-> FALSE, dir |-> "", hb |-> FALSE, listing |-> {},
     update |-> EmptyDict, pre_unique |-> FALSE, after_create |-> FALSE,
     target |-> "none"]

MergeInit ==
    /\ store = <<>>
    /\ now = 0
    /\ ops = 0
    /\ last = NoLast
    /\ inp \in [e : DictsUpTo(MaxLedgerNodes, {0}),
                u1 : DictsUpTo(MaxUpdateNodes, {1}),
                u2 : DictsUpTo(MaxUpdateNodes, {2})]
    /\ out = [step |-> 0, a |-> inp.e, b |-> inp.e]

\* the clock between two reads: it stands or advances
Later(t) == {t} \cup (IF t < MaxClock THEN {t + 1} ELSE {})

MergeFirst ==
    /\ out.step = 0
    /\ \E t \in Later(now) :
        /\ now' = t
        /\ out' = [step |-> 1,
                   a |-> merged_metadata(out.a, inp.u1, t),
                   b |-> merged_metadata(out.b, inp.u2, t)]
    /\ UNCHANGED <<store, ops, last, inp>>

MergeSecond ==
    /\ out.step = 1
    /\ \E t \in Later(now) :
        /\ now' = t
        /\ out' = [step |-> 2,
                   a |-> merged_metadata(out.a, inp.u2, t),
                   b |-> merged_metadata(out.b, inp.u1, t)]
    /\ UNCHANGED <<store, ops, last, inp>>

MergeNext == MergeFirst \/ MergeSecond

SpecMerge == MergeInit /\ [][MergeNext]_vars

(***************************************************************************)
(* C2  The ledger merge is a deep merge.  After one merge of u1 into e:    *)
(*  - every key path of u1 is in the result; its value is the incoming     *)
(*    value unless the existing and the incoming value are both mappings   *)
(*    all the way down to it, and then the result there is a mapping;      *)
(*  - every key path of e that is not a path of u1 and lies under no       *)
(*    replaced value keeps its prior value (a sibling flag is neither      *)
(*    removed nor changed);                                                *)
(*  - the result holds no key path besides those of e, of u1 and           *)
(*    last_updated.                                                        *)
(***************************************************************************)
BothDictsDownTo(e, u, p) ==
    \A n \in 1..Len(p) :
        /\ Has(e, SubSeq(p, 1, n)) /\ IsDict(Get(e, SubSeq(p, 1, n)))
        /\ Has(u, SubSeq(p, 1, n)) /\ IsDict(Get(u, SubSeq(p, 1, n)))

UnderReplaced(u, p) ==
    \E q \in AllPaths : IsProperPrefix(q, p) /\ Has(u, q) /\ ~IsDict(Get(u, q))

IsDeepMergeOf(r, e, u) ==
    /\ \A p \in AllPaths :
        /\ Has(u, p) =>
              /\ Has(r, p)
              /\ IF BothDictsDownTo(e, u, p)
                 THEN IsDict(Get(r, p))
                 ELSE Get(r, p) = Get(u, p)
        /\ (Has(e, p) /\ ~Has(u, p) /\ ~UnderReplaced(u, p)) =>
              Has(r, p) /\ Get(r, p) = Get(e, p)
        /\ Has(r, p) => Has(e, p) \/ Has(u, p)
    /\ DOMAIN r = DOMAIN e \cup DOMAIN u \cup {"last_updated"}

C2_DeepMerge ==
    out.step = 1 => IsDeepMergeOf(out.a, inp.e, inp.u1)

\* a merge into a nested mapping kept a sibling key of the prior ledger
C2_Witness ==
    /\ out.step = 1
    /\ \E p \in AllPaths :
        /\ Len(p) = 2
        /\ Has(inp.e, p) /\ ~Has(inp.u1, p)
        /\ Has(inp.u1, <<p[1]>>) /\ IsDict(Get(inp.u1, <<p[1]>>))
        /\ DOMAIN Get(inp.u1, <<p[1]>>).v # {}
        /\ Get(out.a, p) = Get(inp.e, p)

(***************************************************************************)
(* C3  Merge order independence.  As claimed: two updates whose leaf key   *)
(* paths are disjoint give the same ledger in either order.                *)
(***************************************************************************)
C3_DisjointLeafPaths_Original ==
    (out.step = 2 /\ LeafPaths(inp.u1) \cap LeafPaths(inp.u2) = {})
        => out.a = out.b

(***************************************************************************)
(* C3 (amended)  Two updates of which no leaf key path is equal to or a    *)
(* prefix of a leaf key path of the other give the same ledger in either   *)
(* order, last_updated included when the merges end at the same time.      *)
(***************************************************************************)
PrefixFree(u1, u2) ==
    \A p \in LeafPaths(u1), q \in LeafPaths(u2) :
        ~IsPrefix(p, q) /\ ~IsPrefix(q, p)

C3_PrefixFreeOrderIndependent ==
    (out.step = 2 /\ PrefixFree(inp.u1, inp.u2)) => out.a = out.b

\* both updates write under the same mapping, on different keys
C3_Witness ==
    /\ out.step = 2
    /\ PrefixFree(inp.u1, inp.u2)
    /\ \E k \in Keys, x \in Keys, y \in Keys :
        /\ x # y
        /\ Has(inp.u1, <<k, x>>) /\ Has(inp.u2, <<k, y>>)
        /\ Get(out.a, <<k, x>>) = Num(1) /\ Get(out.a, <<k, y>>) = Num(2)
        /\ out.a = out.b

(***************************************************************************)
(* Python string operations, on TLA+ strings.                              *)
(***************************************************************************)
Chr(s, i) == SubSeq(s, i, i)
From(s, i) == SubSeq(s, i, Len(s))

ascii_uppercase == "ABCDEFGHIJKLMNOPQRSTUVWXYZ"
ascii_lowercase == "abcdefghijklmnopqrstuvwxyz"
digits == "0123456789"

InStr(c, s) == \E i \in 1..Len(s) : Chr(s, i) = c

LowerChar(c) ==
    IF InStr(c, ascii_uppercase)
    THEN Chr(ascii_lowercase, CHOOSE i \in 1..26 : Chr(ascii_uppercase, i) = c)
    ELSE c

\* str.lower()
RECURSIVE lower(_)
lower(s) == IF s = "" THEN "" ELSE LowerChar(Chr(s, 1)) \o lower(From(s, 2))

\* str.endswith(suffix)
endswith(s, suffix) ==
    Len(suffix) <= Len(s) /\ SubSeq(s, Len(s) - Len(suffix) + 1, Len(s)) = suffix

\* s[:-n]
DropLast(s, n) == SubSeq(s, 1, Len(s) - n)

\* s.replace(c, r) for a one-character c
RECURSIVE replace(_, _, _)
replace(s, c, r) ==
    IF s = "" THEN ""
    ELSE (IF Chr(s, 1) = c THEN r ELSE Chr(s, 1)) \o replace(From(s, 2), c, r)

\* s.replace('__', '_'): one pass, left to right, non-overlapping
RECURSIVE replace_double_underscore(_)
replace_double_underscore(s) ==
    IF Len(s) < 2 THEN s
    ELSE IF SubSeq(s, 1, 2) = "__"
         THEN "_" \o replace_double_underscore(From(s, 3))
         ELSE Chr(s, 1) \o replace_double_underscore(From(s, 2))

\* while '__' in s: s = s.replace('__', '_')
RECURSIVE collapse_underscores(_)
collapse_underscores(s) ==
    IF \E i \in 1..(Len(s) - 1) : SubSeq(s, i, i + 1) = "__"
    THEN collapse_underscores(replace_double_underscore(s))
    ELSE s

\* s.strip('_')
RECURSIVE lstrip_underscore(_)
lstrip_underscore(s) ==
    IF s # "" /\ Chr(s, 1) = "_" THEN lstrip_underscore(From(s, 2)) ELSE s
RECURSIVE rstrip_underscore(_)
rstrip_underscore(s) ==
    IF s # "" /\ Chr(s, Len(s)) = "_" THEN rstrip_underscore(DropLast(s, 1)) ELSE s
strip_underscore(s) == rstrip_underscore(lstrip_underscore(s))

\* s.split('_')[0] and s.split('_')[-1]
SplitFirst(s) ==
    IF InStr("_", s)
    THEN SubSeq(s, 1, (CHOOSE i \in 1..Len(s) :
                          Chr(s, i) = "_" /\ \A j \in 1..(i - 1) : Chr(s, j) # "_") - 1)
    ELSE s
SplitLast(s) ==
    IF InStr("_", s)
    THEN From(s, (CHOOSE i \in 1..Len(s) :
                     Chr(s, i) = "_" /\ \A j \in (i + 1)..Len(s) : Chr(s, j) # "_") + 1)
    ELSE s

\* str.isalnum(), on ASCII text
isalnum(s) ==
    /\ s # ""
    /\ \A i \in 1..Len(s) :
          \/ InStr(Chr(s, i), ascii_uppercase)
          \/ InStr(Chr(s, i), ascii_lowercase)
          \/ InStr(Chr(s, i), digits)

\* str(x) of a JSON scalar
PyStr(x) ==
    CASE x.t = "s" -> x.v
      [] x.t = "n" -> ToString(x.v)
      [] x.t = "b" -> (IF x.v THEN "True" ELSE "False")
      [] x.t = "null" -> "None"

\* for ext in ['.tar', '.gz', '.tgz', '.zip']: strip it when present
RECURSIVE strip_extensions(_, _)
strip_extensions(hostname, exts) ==
    IF exts = <<>> THEN hostname
    ELSE strip_extensions(
            IF endswith(lower(hostname), Head(exts))
            THEN DropLast(hostname, Len(Head(exts)))
            ELSE hostname,
            Tail(exts))

common_extensions == <<".tar", ".gz", ".tgz", ".zip">>

\* if hostname.lower().endswith('.qkview'): hostname = hostname[:-7]
strip_qkview(hostname) ==
    IF endswith(lower(hostname), ".qkview") THEN DropLast(hostname, 7) ELSE hostname

\* field in qkview_data and qkview_data[field]
FieldSet(qkview_data, field) ==
    field \in DOMAIN qkview_data /\ Truthy(qkview_data[field])

\* qkview_data.get('id', 'unknown'), formatted into the f-string
fallback_name(qkview_data) ==
    "qkview_" \o (IF "id" \in DOMAIN qkview_data
                  THEN PyStr(qkview_data["id"])
                  ELSE "unknown")

(***************************************************************************)
(* qkview_directory_utils.extract_hostname_from_qkview_data                *)
(***************************************************************************)
hostname_fields == <<"hostname", "device_name", "name", "description", "file_name", "filename">>

\* lines 130-144: the clean-up of one candidate value
clean_candidate(value) ==
    LET h1 == strip_qkview(PyStr(value))
        h2 == IF InStr("_", h1) /\ \E i \in 1..Len(SplitLast(h1)) :
                                        InStr(Chr(SplitLast(h1), i), digits)
              THEN SplitFirst(h1)
              ELSE h1
    IN strip_extensions(h2, common_extensions)

\* line 147: the hostname-shape validation
looks_like_hostname(hostname) ==
    /\ hostname # ""
    /\ InStr(".", hostname)
    /\ isalnum(replace(replace(replace(hostname, ".", ""), "-", ""), "_", ""))

RECURSIVE scan_hostname_fields(_, _)
scan_hostname_fields(qkview_data, fields) ==
    IF fields = <<>> THEN fallback_name(qkview_data)
    ELSE IF FieldSet(qkview_data, Head(fields))
            /\ looks_like_hostname(clean_candidate(qkview_data[Head(fields)]))
         THEN clean_candidate(qkview_data[Head(fields)])
         ELSE scan_hostname_fields(qkview_data, Tail(fields))

extract_hostname_always_fallback(qkview_data) ==
    IF IsDict(qkview_data)
    THEN scan_hostname_fields(qkview_data.v, hostname_fields)
    ELSE "qkview_unknown"

extract_hostname_from_qkview_data(qkview_data) ==
    IF ~Truthy(qkview_data) \/ ~IsDict(qkview_data)
    THEN "unknown_device"
    ELSE scan_hostname_fields(qkview_data.v, hostname_fields)

(***************************************************************************)
(* F5iHealthQKViewDownload._extract_hostname_from_qkview_data              *)
(***************************************************************************)
download_hostname_fields ==
    <<"hostname", "device_name", "name", "filename", "file_name",
      "device_hostname", "system_hostname">>

invalid_chars == <<"/", "\\", ":", "*", "?", "\"", "<", ">", "|", " ">>

RECURSIVE replace_invalid(_, _)
replace_invalid(hostname, chars) ==
    IF chars = <<>> THEN hostname
    ELSE replace_invalid(replace(hostname, Head(chars), "_"), Tail(chars))

\* lines 139-160
download_clean_candidate(value) ==
    strip_underscore(collapse_underscores(replace_invalid(
        strip_extensions(strip_qkview(PyStr(value)), common_extensions),
        invalid_chars)))

RECURSIVE download_scan_fields(_, _)
download_scan_fields(qkview_data, fields) ==
    IF fields = <<>> THEN fallback_name(qkview_data)
    ELSE IF FieldSet(qkview_data, Head(fields))
            /\ download_clean_candidate(qkview_data[Head(fields)]) # ""
         THEN download_clean_candidate(qkview_data[Head(fields)])
         ELSE download_scan_fields(qkview_data, Tail(fields))

download_extract_hostname(qkview_data) ==
    IF ~Truthy(qkview_data) \/ ~IsDict(qkview_data)
    THEN "unknown_device"
    ELSE download_scan_fields(qkview_data.v, download_hostname_fields)

(***************************************************************************)
(* SpecNaming: a detail record, then each of the two extractors applied.   *)
(*   inp = [qkview_data, qkview_id]; qkview_id is the identifier whose     *)
(*   processing asked for the name.                                        *)
(***************************************************************************)
Absent == [t |-> "absent", v |-> 0]

\* the mapping holding the keys of f whose value is not Absent
MkDict(f) == [k \in {x \in DOMAIN f : f[x] # Absent} |-> f[k]]

NamingHostValues ==
    {Absent, Null, Str(""), Str("lb1.ex.com"), Str("lb1"),
     Str("lb1.ex.com_2024.qkview"), Str("a b/c.tar.gz"), Str("___"), Num(7)}
NamingNameValues == {Absent, Str(""), Str("n.x"), Str("_")}
NamingIdValues == {Absent, Str("123"), Num(123)}

NamingRecords ==
    {Map(MkDict([hostname |-> h, name |-> n, id |-> i])) :
        h \in NamingHostValues, n \in NamingNameValues, i \in NamingIdValues}

NamingNonRecords ==
    {Null, List(<<>>), List(<<Str("lb1.ex.com")>>), Str("lb1.ex.com"), Str(""),
     Num(0), Num(5), Bool(FALSE)}

NamingInit ==
    /\ store = <<>>
    /\ now = 0
    /\ ops = 0
    /\ last = NoLast
    /\ inp \in [qkview_data : NamingRecords \cup NamingNonRecords,
                qkview_id : {"123", "456"}]
    /\ out = [util_done |-> FALSE, util |-> "", dl_done |-> FALSE, dl |-> ""]

NameByUtils ==
    /\ ~out.util_done
    /\ out' = [out EXCEPT !.util_done = TRUE,
                          !.util = extract_hostname_from_qkview_data(inp.qkview_data)]
    /\ UNCHANGED <<store, now, ops, last, inp>>

NameByDownload ==
    /\ ~out.dl_done
    /\ out' = [out EXCEPT !.dl_done = TRUE,
                          !.dl = download_extract_hostname(inp.qkview_data)]
    /\ UNCHANGED <<store, now, ops, last, inp>>

NamingNext == NameByUtils \/ NameByDownload

SpecNaming == NamingInit /\ [][NamingNext]_vars

AllHostnameFields ==
    {hostname_fields[i] : i \in 1..Len(hostname_fields)}
    \cup {download_hostname_fields[i] : i \in 1..Len(download_hostname_fields)}

NotARecord(qkview_data) == ~Truthy(qkview_data) \/ ~IsDict(qkview_data)

LacksHostnameField(qkview_data) ==
    /\ ~NotARecord(qkview_data)
    /\ \A f \in AllHostnameFields : ~FieldSet(qkview_data.v, f)

ExpectedFallback(qkview_data) ==
    IF NotARecord(qkview_data) THEN "unknown_device"
    ELSE IF "id" \notin DOMAIN qkview_data.v THEN "qkview_unknown"
    ELSE IF qkview_data.v["id"].t = "n" THEN "qkview_" \o ToString(qkview_data.v["id"].v)
    ELSE "qkview_" \o qkview_data.v["id"].v

NoMeta == [k |-> "absent", doc |-> EmptyDict]
CorruptMeta == [k |-> "corrupt", doc |-> EmptyDict]
JsonMeta(d) == [k |-> "json", doc |-> d]

\* mkdir(exist_ok=True) of the directory and its fixed subdirectories
mkdirs(st, name) ==
    IF name \in DOMAIN st THEN st ELSE st @@ (name :> [meta |-> NoMeta])

write_metadata(st, name, doc) == [st EXCEPT ![name].meta = JsonMeta(doc)]

\* str.isdigit()
isdigit(s) == s # "" /\ \A i \in 1..Len(s) : InStr(Chr(s, i), digits)

\* metadata.get('directory_info', {}).get('created_with_hostname', False);
\* the second .get raises when directory_info is no mapping
DirInfoReadable(doc) ==
    "directory_info" \in DOMAIN doc => IsDict(doc["directory_info"])

created_with_hostname(doc) ==
    IF "directory_info" \in DOMAIN doc
       /\ "created_with_hostname" \in DOMAIN doc["directory_info"].v
    THEN Truthy(doc["directory_info"].v["created_with_hostname"])
    ELSE FALSE

\* find_qkview_directory, lines 307-320: the directory passes the scan
LedgerRecords(st, d, qkview_id) ==
    /\ st[d].meta.k = "json"
    /\ "qkview_id" \in DOMAIN st[d].meta.doc
    /\ st[d].meta.doc["qkview_id"] = Str(qkview_id)
    /\ DirInfoReadable(st[d].meta.doc)

NotFound == [found |-> FALSE, dir |-> "", hb |-> FALSE]

\* a resolve that also accepts a directory whose ledger cannot be read
find_qkview_directory_unreadable(st, qkview_id) ==
    LET hits == {d \in DOMAIN st : LedgerRecords(st, d, qkview_id)
                                   \/ st[d].meta.k = "corrupt"}
    IN IF hits = {} THEN {NotFound}
       ELSE {[found |-> TRUE, dir |-> d, hb |-> created_with_hostname(st[d].meta.doc)] :
                d \in hits}

(***************************************************************************)
(* find_qkview_directory: the results the scan can return.  iterdir()      *)
(* yields the directories in an arbitrary order and the first match is     *)
(* returned, so every matching directory is a possible result.             *)
(***************************************************************************)
find_qkview_directory(st, qkview_id) ==
    LET hits == {d \in DOMAIN st : LedgerRecords(st, d, qkview_id)}
    IN IF hits = {} THEN {NotFound}
       ELSE {[found |-> TRUE, dir |-> d, hb |-> created_with_hostname(st[d].meta.doc)] :
                d \in hits}

\* a listing that reports every directory holding a metadata.json
list_qkview_directories_all(st) ==
    {<<d, Str(d), FALSE>> : d \in {x \in DOMAIN st : st[x].meta.k # "absent"}}

(***************************************************************************)
(* list_qkview_directories: the tuples of the result.  The code returns    *)
(* them sorted; directory names are unique, so the sort compares names     *)
(* only and the result is determined by this set.                          *)
(***************************************************************************)
list_qkview_directories(st) ==
    LET entry(d) ==
            IF st[d].meta.k = "json" /\ DirInfoReadable(st[d].meta.doc)
            THEN {<<d,
                    IF "qkview_id" \in DOMAIN st[d].meta.doc
                    THEN st[d].meta.doc["qkview_id"]
                    ELSE Str("unknown"),
                    created_with_hostname(st[d].meta.doc)>>}
            ELSE IF isdigit(d) THEN {<<d, Str(d), FALSE>>}
            ELSE {}
    IN UNION {entry(d) : d \in DOMAIN st}

(***************************************************************************)
(* _find_hostname_source: the field named, or that the call raises         *)
(* (`field in qkview_data` on a number or a boolean is a TypeError).       *)
(***************************************************************************)
RECURSIVE first_set_field(_, _)
first_set_field(qkview_data, fields) ==
    IF fields = <<>> THEN "fallback_to_qkview_id"
    ELSE IF FieldSet(qkview_data, Head(fields)) THEN Head(fields)
    ELSE first_set_field(qkview_data, Tail(fields))

find_hostname_source_raises(qkview_data) == qkview_data.t \in {"n", "b"}

find_hostname_source(qkview_data) ==
    IF IsDict(qkview_data)
    THEN first_set_field(qkview_data.v, hostname_fields)
    ELSE "fallback_to_qkview_id"

\* a ledger written without the directory_info record
create_metadata_first_document_no_info(qkview_id, hostname, qkview_data, t1, t2) ==
    [qkview_id |-> Str(qkview_id),
     hostname |-> Str(hostname),
     created_timestamp |-> isoformat(t1),
     last_updated |-> isoformat(t2),
     api_data |-> qkview_data,
     processing_status |-> Map([metadata_created |-> Bool(TRUE)]),
     file_counts |-> Map(EmptyDict)]

(***************************************************************************)
(* create_metadata_first, lines 238-263: the ledger document; t1 and t2    *)
(* are the two readings of the clock.                                      *)
(***************************************************************************)
create_metadata_first_document(qkview_id, hostname, qkview_data, t1, t2) ==
    [qkview_id |-> Str(qkview_id),
     hostname |-> Str(hostname),
     created_timestamp |-> isoformat(t1),
     last_updated |-> isoformat(t2),
     api_data |-> qkview_data,
     processing_status |->
        Map([metadata_created |-> Bool(TRUE),
             diagnostics |-> Bool(FALSE),
             qkview_downloaded |-> Bool(FALSE),
             configuration |-> Bool(FALSE),
             logs |-> Bool(FALSE),
             system_info |-> Bool(FALSE)]),
     file_counts |->
        Map([diagnostics |-> Num(0),
             configuration_files |-> Num(0),
             log_files |-> Num(0),
             irules |-> Num(0)]),
     directory_info |->
        Map([path |-> Str(hostname),
             created_with_hostname |-> Bool(TRUE),
             hostname_extracted_from |-> Str(find_hostname_source(qkview_data))])]

(***************************************************************************)
(* create_qkview_metadata, lines 79-96: the legacy ledger document.        *)
(***************************************************************************)
create_qkview_metadata_document(qkview_id, qkview_data, t1, t2) ==
    [qkview_id |-> Str(qkview_id),
     created_timestamp |-> isoformat(t1),
     last_updated |-> isoformat(t2),
     api_data |-> IF Truthy(qkview_data) THEN qkview_data ELSE Map(EmptyDict),
     processing_status |->
        Map([diagnostics |-> Bool(FALSE),
             configuration |-> Bool(FALSE),
             logs |-> Bool(FALSE),
             system_info |-> Bool(FALSE)]),
     file_counts |->
        Map([diagnostics |-> Num(0),
             configuration_files |-> Num(0),
             log_files |-> Num(0),
             irules |-> Num(0)])]

(***************************************************************************)
(* Spec: the store under the operations of qkview_directory_utils.         *)
(***************************************************************************)
Ids == {"123", "456"}

\* detail records as the remote detail query returns them
Details ==
    {Null,
     Map(EmptyDict),
     Num(5),
     Map([id |-> Str("123"), hostname |-> Str("lb1.ex"), file_size |-> Num(12000000)]),
     Map([id |-> Str("123"), hostname |-> Str("lb2.ex")]),
     Map([id |-> Str("456"), name |-> Str("lb1")])}

\* the updates the retrieval steps merge: diagnostics (ihealth_diagnostics.py
\* 277-281) and archive download (ihealth_qkview_download.py 513-531)
diagnostics_update ==
    [processing_status |-> Map([diagnostics |-> Bool(TRUE)]),
     diagnostic_files |-> Map([pdf |-> Str("lb1.ex.pdf"), csv |-> Null, json_hit |-> Null]),
     hostname |-> Str("lb1.ex")]
download_update ==
    [qkview_file |->
        Map([filename |-> Str("lb1.ex.qkview"),
             file_size |-> Num(12000000),
             size_validation |-> Map([size_valid |-> Bool(TRUE)])]),
     processing_status |-> Map([qkview_downloaded |-> Bool(TRUE)])]
Updates == {diagnostics_update, download_update}

\* the detail record process_qkview passes to the legacy initialisation
LegacyDetails == {Map([id |-> Str("123"), hostname |-> Str("lb1.ex")])}

\* the Local Name of each detail record
DetailHostname == [d \in Details |-> extract_hostname_from_qkview_data(d)]

Init ==
    /\ store = <<>>
    /\ now = 0
    /\ ops = 0
    /\ last = NoLast
    /\ inp = <<>>
    /\ out = <<>>

OtherLedgerRecords(st, name, qkview_id) ==
    \E d \in DOMAIN st \ {name} : LedgerRecords(st, d, qkview_id)

\* an initialisation that makes the directories before it looks at the
\* detail record
InitializeMetadataFirst_unguarded(qkview_id, qkview_data) ==
    /\ ops < MaxOps
    /\ ops' = ops + 1
    /\ UNCHANGED <<inp, out>>
    /\ store' = mkdirs(store, DetailHostname[qkview_data])
    /\ now' = now
    /\ last' = [NoLast EXCEPT !.op = "create", !.id = qkview_id, !.raised = TRUE]

(***************************************************************************)
(* initialize_qkview_processing_metadata_first -> create_metadata_first    *)
(***************************************************************************)
InitializeMetadataFirst(qkview_id, qkview_data) ==
    /\ ops < MaxOps
    /\ ops' = ops + 1
    /\ UNCHANGED <<inp, out>>
    /\ IF ~Truthy(qkview_data)
       THEN \* raise ValueError before any effect
            /\ store' = store
            /\ now' = now
            /\ last' = [NoLast EXCEPT !.op = "create", !.id = qkview_id, !.raised = TRUE]
       ELSE LET hostname == DetailHostname[qkview_data]
            IN IF find_hostname_source_raises(qkview_data)
               THEN \* the directories are made, then building the ledger raises
                    /\ store' = mkdirs(store, hostname)
                    /\ now' = now
                    /\ last' = [NoLast EXCEPT !.op = "create", !.id = qkview_id,
                                              !.raised = TRUE]
               ELSE \E t2 \in Later(now) :
                    /\ store' = write_metadata(
                                    mkdirs(store, hostname), hostname,
                                    create_metadata_first_document(
                                        qkview_id, hostname, qkview_data, now, t2))
                    /\ now' = t2
                    /\ last' = [NoLast EXCEPT
                                   !.op = "create", !.id = qkview_id,
                                   !.found = TRUE, !.dir = hostname,
                                   !.pre_unique =
                                       ~OtherLedgerRecords(store, hostname, qkview_id)]

(***************************************************************************)
(* initialize_qkview_processing: the legacy, identifier-named directory    *)
(***************************************************************************)
InitializeLegacy(qkview_id, qkview_data) ==
    /\ ops < MaxOps
    /\ ops' = ops + 1
    /\ UNCHANGED <<inp, out>>
    /\ \E t2 \in Later(now) :
        /\ store' = write_metadata(
                        mkdirs(store, qkview_id), qkview_id,
                        create_qkview_metadata_document(qkview_id, qkview_data, now, t2))
        /\ now' = t2
        /\ last' = [NoLast EXCEPT !.op = "legacy_init", !.id = qkview_id,
                                  !.found = TRUE, !.dir = qkview_id]

(***************************************************************************)
(* create_qkview_directory_structure: the directories alone                *)
(***************************************************************************)
CreateDirectoryStructure(qkview_id) ==
    /\ ops < MaxOps
    /\ ops' = ops + 1
    /\ qkview_id \notin DOMAIN store
    /\ store' = mkdirs(store, qkview_id)
    /\ last' = [NoLast EXCEPT !.op = "mkdir", !.id = qkview_id,
                              !.found = TRUE, !.dir = qkview_id]
    /\ UNCHANGED <<now, inp, out>>

(***************************************************************************)
(* A write of metadata.json (open(.., 'w') then json.dump) that the        *)
(* environment ends part-way leaves a file that is not valid JSON.         *)
(***************************************************************************)
InterruptedWrite(d) ==
    /\ ops < MaxOps
    /\ ops' = ops + 1
    /\ d \in DOMAIN store
    /\ store[d].meta.k = "json"
    /\ store' = [store EXCEPT ![d].meta = CorruptMeta]
    /\ last' = [NoLast EXCEPT !.op = "interrupted", !.dir = d]
    /\ UNCHANGED <<now, inp, out>>

(***************************************************************************)
(* update_qkview_metadata                                                  *)
(***************************************************************************)
UpdateMetadata(qkview_id, updates) ==
    /\ ops < MaxOps
    /\ ops' = ops + 1
    /\ UNCHANGED <<inp, out>>
    /\ \E r \in find_qkview_directory(store, qkview_id) :
        LET legacy == ~r.found /\ qkview_id \in DOMAIN store
                      /\ store[qkview_id].meta.k # "absent"
            dir == IF r.found THEN r.dir ELSE qkview_id
            target == IF r.found THEN "found"
                      ELSE IF qkview_id \notin DOMAIN store THEN "no_directory"
                      ELSE store[qkview_id].meta.k
            base == [NoLast EXCEPT !.op = "merge", !.id = qkview_id,
                                   !.update = updates, !.target = target]
        IN IF ~r.found /\ ~legacy
           THEN \* warning, return: the update is not applied
                /\ store' = store
                /\ now' = now
                /\ last' = [base EXCEPT !.outcome = "dropped"]
           ELSE IF store[dir].meta.k = "corrupt"
           THEN \* json.load raises
                /\ store' = store
                /\ now' = now
                /\ last' = [base EXCEPT !.raised = TRUE, !.dir = dir]
           ELSE \E t \in Later(now) :
                /\ store' = write_metadata(store, dir,
                                merged_metadata(store[dir].meta.doc, updates, t))
                /\ now' = t
                /\ last' = [base EXCEPT !.outcome = "merged", !.dir = dir]

(***************************************************************************)
(* find_qkview_directory, called on its own                                *)
(***************************************************************************)
Resolve(qkview_id) ==
    /\ \E r \in find_qkview_directory(store, qkview_id) :
        last' = [NoLast EXCEPT
                    !.op = "resolve", !.id = qkview_id,
                    !.found = r.found, !.dir = r.dir, !.hb = r.hb,
                    !.after_create = (last.op = "create" /\ ~last.raised
                                      /\ last.id = qkview_id /\ last.pre_unique),
                    !.target = IF last.op = "create" THEN last.dir ELSE ""]
    /\ UNCHANGED <<store, now, ops, inp, out>>

(***************************************************************************)
(* list_qkview_directories                                                 *)
(***************************************************************************)
Enumerate ==
    /\ last' = [NoLast EXCEPT !.op = "enumerate",
                              !.listing = list_qkview_directories(store)]
    /\ UNCHANGED <<store, now, ops, inp, out>>

Next ==
    \/ \E id \in Ids, d \in Details : InitializeMetadataFirst(id, d)
    \/ \E id \in Ids, d \in LegacyDetails : InitializeLegacy(id, d)
    \/ \E id \in Ids : CreateDirectoryStructure(id)
    \/ \E d \in DOMAIN store : InterruptedWrite(d)
    \/ \E id \in Ids, u \in Updates : UpdateMetadata(id, u)
    \/ \E id \in Ids : Resolve(id)
    \/ Enumerate

Spec == Init /\ [][Next]_vars

(***************************************************************************)
(* C1  Resolve-after-create round trip.  After a create that returned,     *)
(* from a store in which no other directory's ledger records the           *)
(* identifier, every result resolve can give for that identifier is the    *)
(* directory create returned, hostname-based; and a resolve that follows   *)
(* such a create returned exactly that.                                    *)
(***************************************************************************)
C1_ResolveAfterCreate ==
    /\ (last.op = "create" /\ ~last.raised /\ last.pre_unique) =>
          find_qkview_directory(store, last.id)
              = {[found |-> TRUE, dir |-> last.dir, hb |-> TRUE]}
    /\ (last.op = "resolve" /\ last.after_create) =>
          last.found /\ last.dir = last.target /\ last.hb

\* a resolve right after a create, with another directory in the store
C1_Witness ==
    /\ last.op = "resolve" /\ last.after_create
    /\ last.found /\ last.hb
    /\ \E d \in DOMAIN store : d # last.dir

(***************************************************************************)
(* C4  A ledger is created once and never fully replaced.  As claimed:     *)
(* once a ledger records an identifier, every later create or merge for    *)
(* that identifier leaves the ledger in place with its created_timestamp,  *)
(* every processing_status flag that was true still true, and its          *)
(* qkview_file record unchanged.                                           *)
(***************************************************************************)
KeepsProgress(old, new) ==
    /\ "created_timestamp" \in DOMAIN new
    /\ new["created_timestamp"] = old["created_timestamp"]
    /\ \A f \in DOMAIN old["processing_status"].v :
          old["processing_status"].v[f] = Bool(TRUE) =>
              /\ f \in DOMAIN new["processing_status"].v
              /\ new["processing_status"].v[f] = Bool(TRUE)
    /\ "qkview_file" \in DOMAIN old =>
          "qkview_file" \in DOMAIN new /\ new["qkview_file"] = old["qkview_file"]

C4_LedgerNeverReplaced ==
    [][\A d \in DOMAIN store :
          (last'.op \in {"create", "merge"} /\ LedgerRecords(store, d, last'.id)) =>
              /\ d \in DOMAIN store'
              /\ store'[d].meta.k = "json"
              /\ KeepsProgress(store[d].meta.doc, store'[d].meta.doc)]_vars

(***************************************************************************)
(* C5  Merge against a missing ledger.  As claimed: a merge for an         *)
(* identifier whose directory exists without a ledger file leaves a ledger *)
(* there that holds the keys of the update.                                *)
(***************************************************************************)
C5_MergeSynthesizesLedger ==
    (last.op = "merge" /\ last.target = "absent") =>
        /\ store[last.id].meta.k = "json"
        /\ DOMAIN last.update \subseteq DOMAIN store[last.id].meta.doc

(***************************************************************************)
(* C6  Resolve legacy fallback.  As claimed: when no ledger records the    *)
(* identifier, resolve returns the directory named after the identifier    *)
(* if there is one, as a legacy directory, and not_found otherwise.        *)
(***************************************************************************)
C6_ResolveLegacyFallback ==
    (last.op = "resolve" /\ ~\E d \in DOMAIN store : LedgerRecords(store, d, last.id)) =>
        IF last.id \in DOMAIN store
        THEN last.found /\ last.dir = last.id /\ ~last.hb
        ELSE ~last.found

(***************************************************************************)
(* C7  Corrupt ledger tolerance.  As claimed: resolve and enumerate do not *)
(* raise, resolve never returns a directory whose metadata.json is invalid *)
(* JSON, and enumerate lists no such directory, whatever its name.         *)
(***************************************************************************)
CorruptDirs == {d \in DOMAIN store : store[d].meta.k = "corrupt"}

C7_CorruptNeverListed_Original ==
    /\ last.op = "resolve" =>
          ~last.raised /\ (last.found => last.dir \notin CorruptDirs)
    /\ last.op = "enumerate" =>
          ~last.raised /\ \A e \in last.listing : e[1] \notin CorruptDirs

(***************************************************************************)
(* C7 (amended)  Resolve and enumerate do not raise; resolve never returns *)
(* a directory whose metadata.json is invalid JSON; enumerate lists such a *)
(* directory only when its name is all digits, and then as the legacy      *)
(* entry (name, name, False).                                              *)
(***************************************************************************)
C7_CorruptLedgerTolerance ==
    /\ last.op = "resolve" =>
          ~last.raised /\ (last.found => last.dir \notin CorruptDirs)
    /\ last.op = "enumerate" =>
          /\ ~last.raised
          /\ \A d \in CorruptDirs :
                {e \in last.listing : e[1] = d}
                    = IF isdigit(d) THEN {<<d, Str(d), FALSE>>} ELSE {}

\* an enumeration that lists a corrupt ledger's all-digit directory
C7_Witness ==
    /\ last.op = "enumerate"
    /\ \E d \in CorruptDirs : isdigit(d) /\ <<d, Str(d), FALSE>> \in last.listing

(***************************************************************************)
(* C8  A corrupt ledger as merge input is not fatal.  As claimed: a merge  *)
(* that reaches a metadata.json that is invalid JSON does not raise.       *)
(***************************************************************************)
C8_CorruptMergeInputNotFatal ==
    (last.op = "merge" /\ last.target = "corrupt") => ~last.raised

(***************************************************************************)
(* The pre-download freshness gate of the archive (ihealth_qkview_download)*)
(***************************************************************************)
\* int(x) of a JSON value: which values convert, and to what.  The strings
\* of this model are digit strings with an optional sign, or words.
is_int_literal(s) ==
    \/ isdigit(s)
    \/ Len(s) > 1 /\ Chr(s, 1) \in {"-", "+"} /\ isdigit(From(s, 2))

int_converts(x) ==
    \/ x.t \in {"n", "b"}
    \/ x.t = "s" /\ is_int_literal(x.v)

DigitOf(c) == CHOOSE i \in 0..9 : Chr(digits, i + 1) = c

RECURSIVE digits_value(_)
digits_value(s) ==
    IF s = "" THEN 0
    ELSE digits_value(SubSeq(s, 1, Len(s) - 1)) * 10 + DigitOf(Chr(s, Len(s)))

PyInt(x) ==
    CASE x.t = "n" -> x.v
      [] x.t = "b" -> (IF x.v THEN 1 ELSE 0)
      [] x.t = "s" ->
            IF Chr(x.v, 1) = "-" THEN 0 - digits_value(From(x.v, 2))
            ELSE IF Chr(x.v, 1) = "+" THEN digits_value(From(x.v, 2))
            ELSE digits_value(x.v)

size_fields == <<"file_size", "size", "filesize", "file_size_bytes", "content_length">>

\* for field in size_fields: the first set field that int() accepts
RECURSIVE scan_size_fields(_, _)
scan_size_fields(api_data, fields) ==
    IF fields = <<>> THEN Null
    ELSE IF FieldSet(api_data, Head(fields)) /\ int_converts(api_data[Head(fields)])
    THEN Num(PyInt(api_data[Head(fields)]))
    ELSE scan_size_fields(api_data, Tail(fields))

\* the expected size read from one ledger document
expected_size_of(doc) ==
    IF "api_data" \in DOMAIN doc /\ IsDict(doc["api_data"])
    THEN scan_size_fields(doc["api_data"].v, size_fields)
    ELSE Null

\* _get_expected_file_size_from_metadata: Null (None) or Num(n), one result
\* for each directory find_qkview_directory can return
get_expected_file_size_from_metadata(st, qkview_id) ==
    {IF r.found /\ st[r.dir].meta.k = "json"
     THEN expected_size_of(st[r.dir].meta.doc)
     ELSE Null : r \in find_qkview_directory(st, qkview_id)}

Abs(n) == IF n < 0 THEN 0 - n ELSE n

\* a validation that rejects a difference of exactly the tolerance
validate_file_size_strict(file, expected_size, tolerance_percent) ==
    IF ~file.exists \/ expected_size = Null THEN TRUE
    ELSE IF expected_size.v = 0 THEN file.size = 0
    ELSE IF expected_size.v < 0 THEN TRUE
    ELSE Abs(file.size - expected_size.v) * 100 < tolerance_percent * expected_size.v

(***************************************************************************)
(* The integer tolerances t in 0..100 for which the double (t / 100) * 100 *)
(* is greater than t: 0.07 * 100 is 7.000000000000001.  For every other t  *)
(* in 0..100 the product is t or just below it.                            *)
(***************************************************************************)
percent_rounds_up == {7, 14, 28, 55, 56}

(***************************************************************************)
(* _validate_file_size: is_valid.  diff_percent = |actual - expected| /    *)
(* expected * 100 is a double compared with the tolerance.  For sizes      *)
(* below 2^41 and expected > 0 the comparison is true when                 *)
(* |actual - expected| * 100 < tolerance * expected, false when it is      *)
(* greater, and at equality the quotient is the double nearest             *)
(* tolerance / 100, so the outcome is that of (tolerance / 100) * 100.     *)
(* For expected < 0 diff_percent is negative, hence valid.                 *)
(***************************************************************************)
validate_file_size(file, expected_size, tolerance_percent) ==
    IF ~file.exists \/ expected_size = Null THEN TRUE
    ELSE IF expected_size.v = 0 THEN file.size = 0
    ELSE IF expected_size.v < 0 THEN TRUE
    ELSE LET diff100 == Abs(file.size - expected_size.v) * 100
             bound == tolerance_percent * expected_size.v
         IN \/ diff100 < bound
            \/ diff100 = bound /\ tolerance_percent \notin percent_rounds_up

min_size_bytes == 10 * 1024 * 1024

\* a gate whose floor is ten million bytes
should_download_qkview_decimal_floor(file, st, qkview_id) ==
    IF ~file.exists THEN {[fetch |-> TRUE, reason |-> "File does not exist"]}
    ELSE IF file.size < 10 * 1000 * 1000
    THEN {[fetch |-> TRUE, reason |-> "File exists but is too small"]}
    ELSE {IF Truthy(expected_size) /\ ~validate_file_size(file, expected_size, 10)
          THEN [fetch |-> TRUE, reason |-> "File size mismatch"]
          ELSE [fetch |-> FALSE, reason |-> "File exists and appears to be adequate size"] :
             expected_size \in get_expected_file_size_from_metadata(st, qkview_id)}

\* _should_download_qkview: the (should_download, reason) pairs it can return
should_download_qkview(file, st, qkview_id) ==
    IF ~file.exists THEN {[fetch |-> TRUE, reason |-> "File does not exist"]}
    ELSE IF file.size < min_size_bytes
    THEN {[fetch |-> TRUE, reason |-> "File exists but is too small"]}
    ELSE {IF Truthy(expected_size) /\ ~validate_file_size(file, expected_size, 10)
          THEN [fetch |-> TRUE, reason |-> "File size mismatch"]
          ELSE [fetch |-> FALSE, reason |-> "File exists and appears to be adequate size"] :
             expected_size \in get_expected_file_size_from_metadata(st, qkview_id)}
(***************************************************************************)
(* SpecGate: a base path holding at most one ledger for the identifier,    *)
(* the archive file at its path, then the gate applied.                    *)
(*   inp = [file, qkview_id], file = [exists, size]                        *)
(***************************************************************************)
GateId == "123"

GateFileSizeValues ==
    {Absent, Num(0), Str("0"), Num(11000000), Num(12000000), Str("12000000"),
     Str("n/a"), Num(0 - 1)}
GateSizeValues == {Absent, Num(20000000)}

GateDetails ==
    {Map(MkDict([id |-> Str(GateId), hostname |-> Str("lb1.ex"),
                 file_size |-> fs, size |-> sz])) :
        fs \in GateFileSizeValues, sz \in GateSizeValues}

GateStores ==
    {<<>>} \cup
    {write_metadata(mkdirs(<<>>, "lb1.ex"), "lb1.ex",
        create_metadata_first_document(GateId, "lb1.ex", d, 0, 0)) :
        d \in GateDetails}

GateActualSizes ==
    {0, 9999999, 10000000, 10485759, 10485760, 10799999, 10800000, 12000000,
     13200000, 13200001, 18000000, 20000000, 22000000, 22000001}

GateFiles ==
    {[exists |-> FALSE, size |-> 0]} \cup
    {[exists |-> TRUE, size |-> n] : n \in GateActualSizes}

NoDecision == [done |-> FALSE, fetch |-> FALSE, reason |-> ""]

GateInit ==
    /\ store \in GateStores
    /\ now = 0
    /\ ops = 0
    /\ last = NoLast
    /\ inp \in [file : GateFiles, qkview_id : {GateId}]
    /\ out = NoDecision

ShouldDownload ==
    /\ ~out.done
    /\ \E r \in should_download_qkview(inp.file, store, inp.qkview_id) :
          out' = [done |-> TRUE, fetch |-> r.fetch, reason |-> r.reason]
    /\ UNCHANGED <<store, now, ops, last, inp>>

GateNext == ShouldDownload

SpecGate == GateInit /\ [][GateNext]_vars

(***************************************************************************)
(* The expected size a ledger's api_data records: the value, as an         *)
(* integer, of the first size field that is set and converts to one.       *)
(***************************************************************************)
RecordedExpected ==
    IF store = <<>> THEN Null
    ELSE LET api == store["lb1.ex"].meta.doc["api_data"].v
             hits == {i \in 1..Len(size_fields) :
                          /\ size_fields[i] \in DOMAIN api
                          /\ Truthy(api[size_fields[i]])
                          /\ int_converts(api[size_fields[i]])}
         IN IF hits = {} THEN Null
            ELSE Num(PyInt(api[size_fields[CHOOSE i \in hits : \A j \in hits : i <= j]]))

\* the actual size differs from e by more than 10 percent of e
DiffersByMoreThanTenPercent(e) == 10 * Abs(inp.file.size - e) > e

(***************************************************************************)
(* C10  Freshness gate decision table.  As claimed: the gate decides fetch *)
(* if and only if the file does not exist, or is smaller than the floor,   *)
(* or an expected size is recorded and the actual size differs from it by  *)
(* more than 10 percent of it.                                             *)
(***************************************************************************)
C10_GateDecisionTable_Original ==
    out.done =>
        (out.fetch <=>
            \/ ~inp.file.exists
            \/ inp.file.size < min_size_bytes
            \/ /\ RecordedExpected # Null
               /\ DiffersByMoreThanTenPercent(RecordedExpected.v))

(***************************************************************************)
(* C10 (amended)  The gate decides fetch if and only if the file does not  *)
(* exist, or is smaller than the floor, or a positive expected size is     *)
(* recorded and the actual size differs from it by more than 10 percent of *)
(* it; a recorded expected size of zero or less never causes a fetch.      *)
(***************************************************************************)
C10_GateDecisionTable ==
    out.done =>
        (out.fetch <=>
            \/ ~inp.file.exists
            \/ inp.file.size < min_size_bytes
            \/ /\ RecordedExpected # Null
               /\ RecordedExpected.v > 0
               /\ DiffersByMoreThanTenPercent(RecordedExpected.v))

\* a file of at least the floor, exactly 10 percent off a recorded size: skip
C10_Witness ==
    /\ out.done /\ ~out.fetch
    /\ inp.file.exists /\ inp.file.size >= min_size_bytes
    /\ RecordedExpected # Null /\ RecordedExpected.v > 0
    /\ 10 * Abs(inp.file.size - RecordedExpected.v) = RecordedExpected.v
\* a positive expected size is recorded and the actual size is within 10
\* percent of it
WithinGateTolerance ==
    /\ RecordedExpected # Null
    /\ RecordedExpected.v > 0
    /\ 10 * Abs(inp.file.size - RecordedExpected.v) <= RecordedExpected.v

(***************************************************************************)
(* C11  Freshness gate boundary.  As claimed, with a floor of 10_000_000   *)
(* bytes: an existing file of 9_999_999 bytes is fetched, and an existing  *)
(* file of 10_000_000 bytes, with no recorded expected size or one within  *)
(* tolerance, is skipped.                                                  *)
(***************************************************************************)
C11_FloorTenMillion_Original ==
    (out.done /\ inp.file.exists) =>
        /\ inp.file.size = 9999999 => out.fetch
        /\ (inp.file.size = 10000000
            /\ (RecordedExpected = Null \/ WithinGateTolerance)) => ~out.fetch

(***************************************************************************)
(* C11 (amended)  The floor is 10 * 1024 * 1024 = 10_485_760 bytes: an     *)
(* existing file of 10_485_759 bytes is fetched, and an existing file of   *)
(* 10_485_760 bytes, with no recorded expected size or one within          *)
(* tolerance, is skipped.                                                  *)
(***************************************************************************)
C11_FloorTenMebibytes ==
    (out.done /\ inp.file.exists) =>
        /\ inp.file.size = 10485759 => out.fetch
        /\ (inp.file.size = 10485760
            /\ (RecordedExpected = Null \/ WithinGateTolerance)) => ~out.fetch

\* a file of exactly the floor, within tolerance of a recorded size: skip
C11_Witness ==
    /\ out.done /\ ~out.fetch
    /\ inp.file.exists /\ inp.file.size = 10485760
    /\ WithinGateTolerance
(***************************************************************************)
(* SpecValidate: _validate_file_size applied to a file, an expected size   *)
(* and a tolerance.                                                        *)
(*   inp = [file, expected_size, tolerance_percent]                        *)
(***************************************************************************)
\* line 392 is reached: the quotient by expected_size is computed
validate_divides(file, expected_size) ==
    file.exists /\ expected_size # Null /\ expected_size.v # 0

ValidateActualSizes ==
    {0, 1, 92, 93, 94, 95, 100, 105, 106, 107, 108,
     11399999, 11400000, 12000000, 12600000, 12600001}

ValidateFiles ==
    {[exists |-> FALSE, size |-> 0]} \cup
    {[exists |-> TRUE, size |-> n] : n \in ValidateActualSizes}

ValidateExpectedSizes == {Null, Num(0 - 1), Num(0), Num(100), Num(12000000)}

\* 5 is the default, 10 is what the freshness gate passes
ValidateTolerances == {5, 7, 10}

NoValidation == [done |-> FALSE, valid |-> FALSE, divided |-> FALSE]

ValidateInit ==
    /\ store = <<>>
    /\ now = 0
    /\ ops = 0
    /\ last = NoLast
    /\ inp \in [file : ValidateFiles, expected_size : ValidateExpectedSizes,
                tolerance_percent : ValidateTolerances]
    /\ out = NoValidation

ValidateFileSize ==
    /\ ~out.done
    /\ out' = [done |-> TRUE,
               valid |-> validate_file_size(inp.file, inp.expected_size,
                                            inp.tolerance_percent),
               divided |-> validate_divides(inp.file, inp.expected_size)]
    /\ UNCHANGED <<store, now, ops, last, inp>>

ValidateNext == ValidateFileSize

SpecValidate == ValidateInit /\ [][ValidateNext]_vars

sleep_seconds == 10

NoContent == [none |-> TRUE, size |-> 0]
Content(n) == [none |-> FALSE, size |-> n]

\* response.raise_for_status()
raise_for_status_raises(r) == r.status >= 400

\* if response.status_code == 202
still_processing(r) == r.status = 202

\* a fetch that gives up on a response that is still 202
fetch_result_rejecting_202(r) ==
    IF r.status = 0 \/ raise_for_status_raises(r) \/ r.status = 202 THEN NoContent
    ELSE Content(r.size)

\* what the function returns once r is its last response: None when the
\* request or raise_for_status raised, the body otherwise
fetch_result(r) ==
    IF r.status = 0 \/ raise_for_status_raises(r) THEN NoContent
    ELSE Content(r.size)

FetchIdle == [pc |-> "start", requests |-> 0, waited |-> 0, result |-> NoContent]

\* refresh_token_if_needed() fails or there is no session: return None
fetch_unauthenticated(f) == [f EXCEPT !.pc = "done", !.result = NoContent]

\* the first session.get and the test for 202
fetch_first(f, r) ==
    IF r.status # 0 /\ still_processing(r)
    THEN [f EXCEPT !.pc = "waiting", !.requests = 1]
    ELSE [f EXCEPT !.pc = "done", !.requests = 1, !.result = fetch_result(r)]

\* time.sleep(10)
fetch_wait(f) == [f EXCEPT !.pc = "retrying", !.waited = f.waited + sleep_seconds]

\* the second session.get; its response is not tested for 202 again
fetch_second(f, r) ==
    [f EXCEPT !.pc = "done", !.requests = 2, !.result = fetch_result(r)]

(***************************************************************************)
(* SpecFetch: one fetch against every pair of transport responses.         *)
(*   inp = [kind, authenticated, responses]                                *)
(***************************************************************************)
FetchBodySizes == {0, 1, 500}
FetchResponses ==
    {[status |-> 0, size |-> 0]} \cup
    {[status |-> st, size |-> n] : st \in {200, 202, 404, 500}, n \in FetchBodySizes}

FetchInit ==
    /\ store = <<>>
    /\ now = 0
    /\ ops = 0
    /\ last = NoLast
    /\ inp \in [kind : {"qkview", "diagnostic"}, authenticated : BOOLEAN,
                responses : [1..2 -> FetchResponses]]
    /\ out = FetchIdle

FetchUnauthenticated ==
    /\ out.pc = "start" /\ ~inp.authenticated
    /\ out' = fetch_unauthenticated(out)
    /\ UNCHANGED <<store, now, ops, last, inp>>

FetchFirst ==
    /\ out.pc = "start" /\ inp.authenticated
    /\ out' = fetch_first(out, inp.responses[1])
    /\ UNCHANGED <<store, now, ops, last, inp>>

FetchWait ==
    /\ out.pc = "waiting"
    /\ out' = fetch_wait(out)
    /\ UNCHANGED <<store, now, ops, last, inp>>

FetchSecond ==
    /\ out.pc = "retrying"
    /\ out' = fetch_second(out, inp.responses[2])
    /\ UNCHANGED <<store, now, ops, last, inp>>

FetchNext == FetchUnauthenticated \/ FetchFirst \/ FetchWait \/ FetchSecond

\* every step is straight-line code of one thread; a transport request is
\* taken to return or raise
SpecFetch == FetchInit /\ [][FetchNext]_vars /\ WF_vars(FetchNext)

(***************************************************************************)
(* C14  Bounded retry on 'still processing'.  At most two requests are     *)
(* issued and at most one wait of 10 happens; a second request is issued   *)
(* only after a first response of 202; a second response of 202 is not     *)
(* retried, its body is the result; and the fetch terminates.              *)
(***************************************************************************)
FetchBounded ==
    /\ out.requests <= 2
    /\ out.waited \in {0, 10}
    /\ out.waited = 10 => inp.responses[1].status = 202
    /\ out.requests = 2 => inp.responses[1].status = 202 /\ out.waited = 10
    /\ (out.pc = "done" /\ out.requests = 2 /\ inp.responses[2].status = 202) =>
          out.result = Content(inp.responses[2].size)

C14_BoundedRetry == []FetchBounded /\ <>(out.pc = "done")

\* a fetch that ended on a second 202 and returned its body
C14_Witness ==
    /\ out.pc = "done" /\ out.requests = 2
    /\ inp.responses[2].status = 202 /\ inp.responses[2].size > 0
    /\ out.result = Content(inp.responses[2].size)
(***************************************************************************)
(* update_qkview_metadata as an operator: the outcomes of one call on      *)
(* store st at clock reading t, [store, raised, outcome].                  *)
(***************************************************************************)
update_qkview_metadata(st, qkview_id, updates, t) ==
    {LET legacy == ~r.found /\ qkview_id \in DOMAIN st
                   /\ st[qkview_id].meta.k # "absent"
         dir == IF r.found THEN r.dir ELSE qkview_id
     IN IF ~r.found /\ ~legacy
        THEN [store |-> st, raised |-> FALSE, outcome |-> "dropped"]
        ELSE IF st[dir].meta.k = "corrupt"
        THEN [store |-> st, raised |-> TRUE, outcome |-> ""]
        ELSE [store |-> write_metadata(st, dir,
                            merged_metadata(st[dir].meta.doc, updates, t)),
              raised |-> FALSE, outcome |-> "merged"] :
     r \in find_qkview_directory(st, qkview_id)}

\* an update that always records the size as valid
download_metadata_update_always_valid(file_size, expected_size, size_valid) ==
    [qkview_file |->
        Map([file_size |-> Num(file_size),
             size_validation |->
                Map([actual_size |-> Num(file_size),
                     expected_size |-> expected_size,
                     size_valid |-> Bool(TRUE)])]),
     processing_status |-> Map([qkview_downloaded |-> Bool(TRUE)])]

\* download_qkview_file, lines 512-529: the update merged after a download
\* (the fields of qkview_file that carry sizes and the validation outcome)
download_metadata_update(file_size, expected_size, size_valid) ==
    [qkview_file |->
        Map([file_size |-> Num(file_size),
             size_validation |->
                Map([actual_size |-> Num(file_size),
                     expected_size |-> expected_size,
                     size_valid |-> Bool(size_valid)])]),
     processing_status |-> Map([qkview_downloaded |-> Bool(TRUE)])]

(***************************************************************************)
(* SpecDownload: download_qkview_file for one identifier, step by step.    *)
(*   inp = [qkview_id, authenticated, responses]                           *)
(*   out = [pc, fetch, file, result, trace]; file is the archive file at   *)
(*   the generated path, trace the phases passed so far.                   *)
(***************************************************************************)
DownloadStores ==
    {<<>>} \cup
    {write_metadata(mkdirs(<<>>, "lb1.ex"), "lb1.ex",
        create_metadata_first_document(GateId, "lb1.ex", d, 0, 0)) :
        d \in {Map(MkDict([id |-> Str(GateId), hostname |-> Str("lb1.ex"),
                           file_size |-> fs])) :
                  fs \in {Absent, Str("0"), Num(12000000)}}}

DownloadFiles ==
    {[exists |-> FALSE, size |-> 0], [exists |-> TRUE, size |-> 5],
     [exists |-> TRUE, size |-> 12000000]}

DownloadBodySizes == {0, 11399999, 11400000, 12600001}
DownloadResponses ==
    {[status |-> 0, size |-> 0], [status |-> 404, size |-> 0]} \cup
    {[status |-> st, size |-> n] : st \in {200, 202}, n \in DownloadBodySizes}

NoResult == [returned |-> FALSE, success |-> FALSE, skipped |-> FALSE,
             validated |-> FALSE, valid |-> FALSE, error |-> ""]
Failure(msg) == [NoResult EXCEPT !.returned = TRUE, !.error = msg]

DownloadInit ==
    /\ store \in DownloadStores
    /\ now = 0
    /\ ops = 0
    /\ last = NoLast
    /\ inp \in [qkview_id : {GateId}, authenticated : BOOLEAN,
                responses : [1..2 -> DownloadResponses]]
    /\ \E f \in DownloadFiles :
        out = [pc |-> "unresolved", fetch |-> FetchIdle, file |-> f,
               result |-> NoResult, trace |-> <<"UNRESOLVED">>]

\* lines 450-455: find the directory or return 'Directory not found'
DownloadResolve ==
    /\ out.pc = "unresolved"
    /\ \E r \in find_qkview_directory(store, inp.qkview_id) :
        out' = IF r.found
               THEN [out EXCEPT !.pc = "directory_ready",
                                !.trace = Append(@, "DIRECTORY_READY")]
               ELSE [out EXCEPT !.pc = "failed",
                                !.result = Failure("Directory not found")]
    /\ UNCHANGED <<store, now, ops, last, inp>>

\* lines 457-473: the freshness gate
DownloadGate ==
    /\ out.pc = "directory_ready"
    /\ \E d \in should_download_qkview(out.file, store, inp.qkview_id) :
        out' = IF d.fetch
               THEN [out EXCEPT !.pc = "fetching", !.trace = Append(@, "FETCHING")]
               ELSE [out EXCEPT !.pc = "skipped", !.trace = Append(@, "SKIPPED"),
                                !.result = [NoResult EXCEPT !.returned = TRUE,
                                                            !.success = TRUE,
                                                            !.skipped = TRUE]]
    /\ UNCHANGED <<store, now, ops, last, inp>>

\* a handler that goes on with whatever the fetch returned
after_fetch_unchecked(o, f) ==
    IF f.pc # "done" THEN [o EXCEPT !.fetch = f]
    ELSE [o EXCEPT !.fetch = f, !.pc = "fetched"]

\* a handler that takes an empty body for an archive
after_fetch_accepting_empty(o, f) ==
    IF f.pc # "done" THEN [o EXCEPT !.fetch = f]
    ELSE IF f.result.none
    THEN [o EXCEPT !.fetch = f, !.pc = "failed",
                   !.result = Failure("Failed to download QKView file")]
    ELSE [o EXCEPT !.fetch = f, !.pc = "fetched"]

\* lines 477-480: once the fetch has returned, 'if not file_content'
after_fetch(o, f) ==
    IF f.pc # "done" THEN [o EXCEPT !.fetch = f]
    ELSE IF f.result.none \/ f.result.size = 0
    THEN [o EXCEPT !.fetch = f, !.pc = "failed",
                   !.result = Failure("Failed to download QKView file")]
    ELSE [o EXCEPT !.fetch = f, !.pc = "fetched"]
\* lines 475-476 with _download_qkview_file, lines 33-60: authentication and
\* the first request
DownloadFetchFirst ==
    /\ out.pc = "fetching"
    /\ out.fetch.pc = "start"
    /\ out' = after_fetch(out,
                IF inp.authenticated
                THEN fetch_first(out.fetch, inp.responses[1])
                ELSE fetch_unauthenticated(out.fetch))
    /\ UNCHANGED <<store, now, ops, last, inp>>

DownloadFetchWait ==
    /\ out.pc = "fetching"
    /\ out.fetch.pc = "waiting"
    /\ out' = after_fetch(out, fetch_wait(out.fetch))
    /\ UNCHANGED <<store, now, ops, last, inp>>

DownloadFetchSecond ==
    /\ out.pc = "fetching"
    /\ out.fetch.pc = "retrying"
    /\ out' = after_fetch(out, fetch_second(out.fetch, inp.responses[2]))
    /\ UNCHANGED <<store, now, ops, last, inp>>

\* lines 482-487: os.makedirs and the write of the fetched bytes; a failed
\* write leaves the old file or a truncated one and is reported by the
\* handler at line 549
DownloadSave ==
    /\ out.pc = "fetched"
    /\ \/ out' = [out EXCEPT !.pc = "persisted",
                             !.file = [exists |-> TRUE,
                                       size |-> out.fetch.result.size],
                             !.trace = Append(@, "PERSISTED")]
       \/ \E f \in {out.file, [exists |-> TRUE, size |-> 0]} :
            out' = [out EXCEPT !.pc = "failed", !.file = f,
                               !.result = Failure("Failed to save file")]
    /\ UNCHANGED <<store, now, ops, last, inp>>

\* lines 489-547: look up the expected size, validate with the default
\* tolerance of 5 percent, merge the ledger, return
default_tolerance_percent == 5

DownloadValidateAndRecord ==
    /\ out.pc = "persisted"
    /\ \E e \in get_expected_file_size_from_metadata(store, inp.qkview_id),
          t \in Later(now) :
        LET valid == validate_file_size(out.file, e, default_tolerance_percent)
            upd == download_metadata_update(out.file.size, e, valid)
        IN \E u \in update_qkview_metadata(store, inp.qkview_id, upd, t) :
            /\ store' = u.store
            /\ now' = t
            /\ out' = IF u.raised
                      THEN [out EXCEPT !.pc = "failed",
                                       !.result = Failure("Failed to save file")]
                      ELSE [out EXCEPT !.pc = "done",
                                       !.trace = Append(@, "VALIDATED"),
                                       !.result = [NoResult EXCEPT
                                                     !.returned = TRUE,
                                                     !.success = TRUE,
                                                     !.validated = TRUE,
                                                     !.valid = valid]]
    /\ UNCHANGED <<ops, last, inp>>

DownloadNext ==
    \/ DownloadResolve
    \/ DownloadGate
    \/ DownloadFetchFirst
    \/ DownloadFetchWait
    \/ DownloadFetchSecond
    \/ DownloadSave
    \/ DownloadValidateAndRecord

SpecDownload == DownloadInit /\ [][DownloadNext]_vars /\ WF_vars(DownloadNext)
\* the fetched size differs from e by more than 5 percent of e
OutsideFivePercent(e) == 20 * Abs(out.fetch.result.size - e) > e

\* the number of requests the fetch makes for the responses of inp
RequestsOfFetch == IF inp.responses[1].status = 202 THEN 2 ELSE 1

(***************************************************************************)
(* C13  A validation mismatch after a download is only a warning: when the *)
(* fetched archive's size is outside 5 percent of the recorded expected    *)
(* size, the handler returns with the written file kept, no request beyond *)
(* those of the one fetch, success = true, size_validation.valid = false,  *)
(* and a ledger holding qkview_file.size_validation.size_valid = false and *)
(* processing_status.qkview_downloaded = true.                             *)
(***************************************************************************)
C13_MismatchIsWarning ==
    (/\ out.pc \in {"done", "failed"}
     /\ "PERSISTED" \in {out.trace[i] : i \in 1..Len(out.trace)}
     /\ RecordedExpected # Null
     /\ OutsideFivePercent(RecordedExpected.v))
    => /\ out.pc = "done"
       /\ out.file = [exists |-> TRUE, size |-> out.fetch.result.size]
       /\ out.fetch.requests = RequestsOfFetch
       /\ out.result.returned /\ out.result.success /\ ~out.result.skipped
       /\ out.result.validated /\ ~out.result.valid
       /\ LET doc == store["lb1.ex"].meta.doc
          IN /\ Get(doc, <<"qkview_file", "size_validation", "size_valid">>)
                    = Bool(FALSE)
             /\ Get(doc, <<"processing_status", "qkview_downloaded">>)
                    = Bool(TRUE)

C13_Witness ==
    /\ out.pc = "done"
    /\ RecordedExpected = Num(12000000)
    /\ out.fetch.result.size = 12600001
    /\ out.fetch.requests = 2
    /\ ~out.result.valid
SkippedOrder == <<"UNRESOLVED", "DIRECTORY_READY", "SKIPPED">>
ClaimedFetchOrder ==
    <<"UNRESOLVED", "DIRECTORY_READY", "FETCHING", "VALIDATED", "PERSISTED">>
FetchOrder ==
    <<"UNRESOLVED", "DIRECTORY_READY", "FETCHING", "PERSISTED", "VALIDATED">>

(***************************************************************************)
(* C16  Archive retrieval state machine.  As claimed: the phases follow    *)
(* UNRESOLVED -> DIRECTORY_READY -> (SKIPPED | FETCHING -> VALIDATED ->    *)
(* PERSISTED), validation preceding the write of the archive file, and     *)
(* every retrieval ends in SKIPPED or PERSISTED.                           *)
(***************************************************************************)
C16_StateOrder_Original ==
    /\ IsPrefix(out.trace, SkippedOrder) \/ IsPrefix(out.trace, ClaimedFetchOrder)
    /\ out.result.returned =>
          out.trace[Len(out.trace)] \in {"SKIPPED", "PERSISTED"}

\* the handler has returned in one of its final states
DownloadEnded ==
    \/ out.pc = "skipped" /\ out.trace = SkippedOrder /\ out.result.success
    \/ /\ out.pc = "done" /\ out.trace = FetchOrder /\ out.result.success
       /\ out.fetch.result.size > 0
       /\ out.file = [exists |-> TRUE, size |-> out.fetch.result.size]
    \/ /\ out.pc = "failed" /\ ~out.result.success
       /\ \/ /\ out.result.error = "Directory not found"
             /\ out.trace = <<"UNRESOLVED">>
          \/ /\ out.result.error = "Failed to download QKView file"
             /\ out.trace = SubSeq(FetchOrder, 1, 3)
             /\ out.fetch.result.none \/ out.fetch.result.size = 0
          \/ /\ out.result.error = "Failed to save file"
             /\ out.trace \in {SubSeq(FetchOrder, 1, 3), SubSeq(FetchOrder, 1, 4)}

(***************************************************************************)
(* C16  As the code has it: the phases follow UNRESOLVED ->                *)
(* DIRECTORY_READY -> (SKIPPED | FETCHING -> PERSISTED -> VALIDATED): the  *)
(* fetched bytes are written to the archive file before the size of the    *)
(* written file is validated.  No phase is visited out of this order and   *)
(* every retrieval returns, in SKIPPED, in VALIDATED with the ledger       *)
(* merged, or with success = false (directory not found, nothing fetched,  *)
(* or the write or the ledger merge failed).                               *)
(***************************************************************************)
C16_StateOrder ==
    /\ [](IsPrefix(out.trace, SkippedOrder) \/ IsPrefix(out.trace, FetchOrder))
    /\ [](out.result.returned => DownloadEnded)
    /\ <>(out.result.returned)

C16_Witness ==
    /\ out.pc = "done"
    /\ out.trace = FetchOrder
    /\ out.fetch.requests = 2
    /\ out.result.valid
(***************************************************************************)
(* SpecBatch: the batch loops of process_qkviews_command and               *)
(* get_diagnostics_command, one action for each pass of the loop body.     *)
(*   inp = [command, ids]; ids[i] tells how each step behaves for the i-th *)
(*   identifier of the list:                                               *)
(*     init      "ok" | "none" (returns no context) | "raise"              *)
(*     download  "ok" | "fail" (success False) | "raise"                   *)
(*     diag      "ok" | "empty" (no file downloaded) | "raise"             *)
(*   out = [next, processed, counted, reported, total]                     *)
(***************************************************************************)
MaxBatch == 2

BatchBehaviours ==
    [init : {"ok", "none", "raise"}, download : {"ok", "fail", "raise"},
     diag : {"ok", "empty", "raise"}]

BatchInit ==
    /\ store = <<>>
    /\ now = 0
    /\ ops = 0
    /\ last = NoLast
    /\ \E n \in 1..MaxBatch :
        inp \in [command : {"process", "diagnostics"},
                 ids : [1..n -> BatchBehaviours]]
    /\ out = [next |-> 1, processed |-> <<>>, counted |-> {},
              reported |-> FALSE, total |-> 0]

\* process_qkviews_command, lines 219-265: is the identifier counted?  The
\* count is raised once the context is there, before the download and the
\* diagnostics, whose failures are caught and printed.
process_counts(b) == b.init = "ok"

\* get_diagnostics_command, lines 326-338: counted when some file came back
diagnostics_counts(b) == b.diag = "ok"

ProcessOne ==
    /\ inp.command = "process"
    /\ ~out.reported
    /\ out.next <= Len(inp.ids)
    /\ out' = [out EXCEPT !.next = @ + 1,
                          !.processed = Append(@, out.next),
                          !.counted = IF process_counts(inp.ids[out.next])
                                      THEN @ \cup {out.next} ELSE @]
    /\ UNCHANGED <<store, now, ops, last, inp>>

DiagnosticsOne ==
    /\ inp.command = "diagnostics"
    /\ ~out.reported
    /\ out.next <= Len(inp.ids)
    /\ out' = [out EXCEPT !.next = @ + 1,
                          !.processed = Append(@, out.next),
                          !.counted = IF diagnostics_counts(inp.ids[out.next])
                                      THEN @ \cup {out.next} ELSE @]
    /\ UNCHANGED <<store, now, ops, last, inp>>

\* lines 268 and 341: the summary line after the loop
BatchReport ==
    /\ ~out.reported
    /\ out.next > Len(inp.ids)
    /\ out' = [out EXCEPT !.reported = TRUE, !.total = Cardinality(out.counted)]
    /\ UNCHANGED <<store, now, ops, last, inp>>

BatchNext == ProcessOne \/ DiagnosticsOne \/ BatchReport

SpecBatch == BatchInit /\ [][BatchNext]_vars /\ WF_vars(BatchNext)

\* the processing of an identifier failed: one of the steps its command
\* runs for it returned a failure or raised
ProcessingFailed(b) ==
    IF inp.command = "process"
    THEN b.init # "ok" \/ b.download # "ok" \/ b.diag # "ok"
    ELSE b.diag # "ok"

(***************************************************************************)
(* C15  Batch failure isolation.  Whatever the failures, every identifier  *)
(* of the batch is processed exactly once, in list order, the summary is   *)
(* reported after the last one, and an identifier is counted as successful *)
(* only if its processing did not fail.                                    *)
(***************************************************************************)
C15_BatchIsolation ==
    /\ [](/\ Len(out.processed) <= Len(inp.ids)
          /\ \A i \in 1..Len(out.processed) : out.processed[i] = i)
    /\ [](out.reported =>
            /\ Len(out.processed) = Len(inp.ids)
            /\ out.total = Cardinality(out.counted)
            /\ \A i \in out.counted : ~ProcessingFailed(inp.ids[i]))
    /\ <>(out.reported)
(***************************************************************************)
(* SpecDiagnostics: download_diagnostic_reports for one identifier whose   *)
(* directory was created with hostname addressing.                         *)
(*   inp = [qkview_id, hostname, pdf, csv, json_hit, summary]: the name    *)
(*   get_hostname_from_qkview returns and whether each request returns     *)
(*   content                                                               *)
(*   out = [pc, subdirs, files, downloaded, raised]; subdirs holds the     *)
(*   <<directory, category>> pairs and files the <<directory, category,    *)
(*   filename>> triples below the base path; store holds the directories.  *)
(***************************************************************************)
DiagnosticsHostnames == {"lb1.ex", "qkview_123"}

DiagnosticsInit ==
    /\ store \in DownloadStores \ {<<>>}
    /\ now = 0
    /\ ops = 0
    /\ last = NoLast
    /\ inp \in [qkview_id : {GateId}, hostname : DiagnosticsHostnames,
                pdf : BOOLEAN, csv : BOOLEAN, json_hit : BOOLEAN,
                summary : BOOLEAN]
    /\ out = [pc |-> "pdf", subdirs |-> {<<"lb1.ex", "Diagnostics">>},
              files |-> {}, downloaded |-> {}, raised |-> FALSE]

\* save_data_to_qkview on directories st and tree o: the directory found
\* for the identifier, else the directory named by the identifier, else
\* nothing is saved
save_data_to_qkview(st, o, qkview_id, category, filename) ==
    {LET dir == IF r.found THEN r.dir ELSE qkview_id
     IN IF ~r.found /\ qkview_id \notin DOMAIN st THEN o
        ELSE [o EXCEPT !.subdirs = @ \cup {<<dir, category>>},
                       !.files = @ \cup {<<dir, category, filename>>}] :
     r \in find_qkview_directory(st, qkview_id)}

\* a save that writes below the directory named by the identifier
save_data_to_id_directory(st, o, qkview_id, category, filename) ==
    {[o EXCEPT !.subdirs = @ \cup {<<qkview_id, category>>},
               !.files = @ \cup {<<qkview_id, category, filename>>}]}

\* lines 236-245: the PDF goes to base_path/<id>/Diagnostics, which
\* os.makedirs creates
DiagnosticsPdf ==
    /\ out.pc = "pdf"
    /\ IF inp.pdf
       THEN /\ store' = mkdirs(store, inp.qkview_id)
            /\ out' = [out EXCEPT
                         !.pc = "csv",
                         !.subdirs = @ \cup {<<inp.qkview_id, "Diagnostics">>},
                         !.files = @ \cup {<<inp.qkview_id, "Diagnostics", "pdf">>},
                         !.downloaded = @ \cup {"pdf"}]
       ELSE /\ store' = store
            /\ out' = [out EXCEPT !.pc = "csv"]
    /\ UNCHANGED <<now, ops, last, inp>>

\* lines 247-255: the CSV goes to the same place, without makedirs: open
\* raises when the directory is not there
DiagnosticsCsv ==
    /\ out.pc = "csv"
    /\ IF ~inp.csv THEN out' = [out EXCEPT !.pc = "json_hit"]
       ELSE IF <<inp.qkview_id, "Diagnostics">> \in out.subdirs
       THEN out' = [out EXCEPT
                      !.pc = "json_hit",
                      !.files = @ \cup {<<inp.qkview_id, "Diagnostics", "csv">>},
                      !.downloaded = @ \cup {"csv"}]
       ELSE out' = [out EXCEPT !.pc = "done", !.raised = TRUE]
    /\ UNCHANGED <<store, now, ops, last, inp>>

\* lines 260-266
DiagnosticsJsonHit ==
    /\ out.pc = "json_hit"
    /\ IF inp.json_hit
       THEN \E o \in save_data_to_qkview(store, out, inp.qkview_id,
                                         "Diagnostics", "diagnostics_hit.json") :
              out' = [o EXCEPT !.pc = "summary",
                               !.downloaded = @ \cup {"json_hit"}]
       ELSE out' = [out EXCEPT !.pc = "summary"]
    /\ UNCHANGED <<store, now, ops, last, inp>>

\* lines 268-273
DiagnosticsSummary ==
    /\ out.pc = "summary"
    /\ IF inp.summary
       THEN \E o \in save_data_to_qkview(store, out, inp.qkview_id,
                                         "Diagnostics", "diagnostic_summary.json") :
              out' = [o EXCEPT !.pc = "update"]
       ELSE out' = [out EXCEPT !.pc = "update"]
    /\ UNCHANGED <<store, now, ops, last, inp>>

\* lines 275-281: the update merged after the downloads
downloaded_files_update(hostname, downloaded) ==
    [processing_status |-> Map([diagnostics |-> Bool(TRUE)]),
     diagnostic_files |->
        Map([pdf |-> IF "pdf" \in downloaded THEN Str("pdf") ELSE Null,
             csv |-> IF "csv" \in downloaded THEN Str("csv") ELSE Null,
             json_hit |-> IF "json_hit" \in downloaded
                          THEN Str("diagnostics_hit.json") ELSE Null]),
     hostname |-> Str(hostname)]

DiagnosticsUpdate ==
    /\ out.pc = "update"
    /\ \E t \in Later(now) :
       \E u \in update_qkview_metadata(store, inp.qkview_id,
                  downloaded_files_update(inp.hostname, out.downloaded), t) :
          /\ store' = u.store
          /\ now' = t
          /\ out' = [out EXCEPT !.pc = "done", !.raised = u.raised]
    /\ UNCHANGED <<ops, last, inp>>

DiagnosticsNext ==
    \/ DiagnosticsPdf
    \/ DiagnosticsCsv
    \/ DiagnosticsJsonHit
    \/ DiagnosticsSummary
    \/ DiagnosticsUpdate

SpecDiagnostics == DiagnosticsInit /\ [][DiagnosticsNext]_vars

(***************************************************************************)
(* C17  Every diagnostic artifact written lies in the Diagnostics          *)
(* subdirectory of the directory resolve returns for the identifier, and   *)
(* no directory other than the device directory exists under the base path.*)
(***************************************************************************)
C17_DiagnosticsUnderDevice ==
    /\ DOMAIN store = {"lb1.ex"}
    /\ \A r \in find_qkview_directory(store, inp.qkview_id) :
        /\ r.found
        /\ \A f \in out.files : f[1] = r.dir /\ f[2] = "Diagnostics"
(***************************************************************************)
(* Saved command outputs.  A slot is one <type>/<subtype>/<name> place     *)
(* under Commands; it holds a JSON sidecar and a sibling text file:        *)
(*   json  [k |-> "absent"], [k |-> "corrupt"] (json.load raises) or       *)
(*         [k |-> "json", metadata_id, api_id]: metadata.id and            *)
(*         api_response[0].id, "none" when the response has no id          *)
(*   txt   [exists, size]                                                  *)
(***************************************************************************)
Slots == {"tmsh/a", "unix/b"}
CommandIds == {"c1", "c2"}

min_text_bytes == 300

NoSidecar == [k |-> "absent", metadata_id |-> "none", api_id |-> "none"]
CorruptSidecar == [k |-> "corrupt", metadata_id |-> "none", api_id |-> "none"]
Sidecar(mid, aid) == [k |-> "json", metadata_id |-> mid, api_id |-> aid]
NoText == [exists |-> FALSE, size |-> 0]
Text(n) == [exists |-> TRUE, size |-> n]

\* a skip test that accepts a text file of exactly the threshold
should_skip_command_download_inclusive(tree, command_id) ==
    LET adequate == {s \in Slots :
                        /\ tree[s].json.k = "json"
                        /\ \/ tree[s].json.metadata_id = command_id
                           \/ tree[s].json.api_id = command_id
                        /\ tree[s].txt.exists
                        /\ tree[s].txt.size >= min_text_bytes}
    IN IF adequate = {} THEN {[skip |-> FALSE, slot |-> "none"]}
       ELSE {[skip |-> TRUE, slot |-> s] : s \in adequate}

\* _should_skip_command_download: the scan returns at the first sidecar, in
\* directory order, that loads, records the identifier and has an adequate
\* text file; any such slot can come first
should_skip_command_download(tree, command_id) ==
    LET adequate == {s \in Slots :
                        /\ tree[s].json.k = "json"
                        /\ \/ tree[s].json.metadata_id = command_id
                           \/ tree[s].json.api_id = command_id
                        /\ tree[s].txt.exists
                        /\ tree[s].txt.size > min_text_bytes}
    IN IF adequate = {} THEN {[skip |-> FALSE, slot |-> "none"]}
       ELSE {[skip |-> TRUE, slot |-> s] : s \in adequate}

(***************************************************************************)
(* SpecSkip: the skip test on every small tree of saved outputs.           *)
(*   inp = [command_id, tree], out = [done, skip, slot]                    *)
(***************************************************************************)
SkipSidecars ==
    {NoSidecar, CorruptSidecar} \cup
    {Sidecar(m, a) : m \in CommandIds, a \in CommandIds \cup {"none"}}
SkipTexts == {NoText, Text(min_text_bytes), Text(min_text_bytes + 1)}

SkipInit ==
    /\ store = <<>>
    /\ now = 0
    /\ ops = 0
    /\ last = NoLast
    /\ inp \in [command_id : CommandIds,
                tree : [Slots -> [json : SkipSidecars, txt : SkipTexts]]]
    /\ out = [done |-> FALSE, skip |-> FALSE, slot |-> "none"]

ShouldSkip ==
    /\ ~out.done
    /\ \E r \in should_skip_command_download(inp.tree, inp.command_id) :
        out' = [done |-> TRUE, skip |-> r.skip, slot |-> r.slot]
    /\ UNCHANGED <<store, now, ops, last, inp>>

SkipNext == ShouldSkip

SpecSkip == SkipInit /\ [][SkipNext]_vars

\* the sidecar of slot s loads and records the identifier
RecordsIdentifier(s) ==
    /\ inp.tree[s].json \notin {NoSidecar, CorruptSidecar}
    /\ inp.command_id \in {inp.tree[s].json.metadata_id, inp.tree[s].json.api_id}

(***************************************************************************)
(* C18  Command-output skip rule: the skip test answers skip exactly when  *)
(* some saved sidecar records the command identifier and its sibling text  *)
(* file exists with more than 300 bytes; a text file of 300 bytes or       *)
(* fewer, a sidecar with another identifier or an unreadable sidecar never *)
(* causes a skip: the slot named by a skip is one that qualifies.          *)
(***************************************************************************)
C18_SkipRule ==
    out.done =>
        /\ out.skip <=>
             \E s \in Slots :
                /\ RecordsIdentifier(s)
                /\ inp.tree[s].txt.exists
                /\ inp.tree[s].txt.size > 300
        /\ out.skip =>
             /\ RecordsIdentifier(out.slot)
             /\ inp.tree[out.slot].txt.size > 300

C18_Witness ==
    /\ out.done
    /\ out.skip
    /\ out.slot = "unix/b"
    /\ inp.tree["tmsh/a"].json = Sidecar(inp.command_id, "none")
    /\ inp.tree["tmsh/a"].txt = Text(300)
    /\ inp.tree["unix/b"].json.metadata_id # inp.command_id
    /\ inp.tree["unix/b"].json.api_id = inp.command_id
(***************************************************************************)
(* SpecCommands: two runs of download_all_commands for one identifier.     *)
(*   inp = [first, later, details]: the listing the transport returns in   *)
(*   each run and the detail response for each command identifier          *)
(*   out = [run, pc, cache, tree, source, list, next, skip, downloaded,    *)
(*          events]                                                        *)
(*   cache is Commands/commands.json, tree the saved outputs, events the   *)
(*   transport requests and skip tests in the order they happen.           *)
(***************************************************************************)
NoListing == [none |-> TRUE, ids |-> <<>>]
Listing(ids) == [none |-> FALSE, ids |-> ids]
Listings ==
    {NoListing} \cup
    {Listing(ids) : ids \in
        {q \in UNION {[1..n -> CommandIds] : n \in 0..Cardinality(CommandIds)} :
            \A i, j \in 1..Len(q) : i # j => q[i] # q[j]}}

\* the detail response: the request fails, carries no output, or carries an
\* output whose command name places it in slot and whose text file, header
\* included, has size bytes
CommandDetails ==
    {[kind |-> "fail", slot |-> "none", size |-> 0],
     [kind |-> "empty", slot |-> "none", size |-> 0],
     [kind |-> "output", slot |-> "tmsh/a", size |-> 120],
     [kind |-> "output", slot |-> "tmsh/a", size |-> 400],
     [kind |-> "output", slot |-> "unix/b", size |-> 400]}

NoCache == [k |-> "absent", list |-> <<>>]
CorruptCache == [k |-> "corrupt", list |-> <<>>]
SavedCache(ids) == [k |-> "json", list |-> ids]

EmptySlot == [json |-> NoSidecar, txt |-> NoText]
CommandTrees ==
    {[s \in Slots |-> IF s = "tmsh/a" THEN a ELSE EmptySlot] :
        a \in {EmptySlot,
               [json |-> Sidecar("c1", "none"), txt |-> Text(400)],
               [json |-> Sidecar("c1", "none"), txt |-> Text(120)]}}

truthy_listing(r) == ~r.none /\ Len(r.ids) > 0

\* a run that asks the transport for the listing whatever the cache holds
available_commands_uncached(cache, response) ==
    [source |-> "api", available |-> response,
     cache |-> IF cache.k = "absent" /\ truthy_listing(response)
               THEN SavedCache(response.ids) ELSE cache]

\* lines 496-535: the listing comes from commands.json when it exists and
\* loads, from the transport otherwise; a listing fetched because the file
\* did not exist is saved when it is not empty
available_commands(cache, response) ==
    IF cache.k = "json"
    THEN [source |-> "file", available |-> Listing(cache.list), cache |-> cache]
    ELSE IF cache.k = "corrupt"
    THEN [source |-> "api", available |-> response, cache |-> cache]
    ELSE [source |-> "api", available |-> response,
          cache |-> IF truthy_listing(response)
                    THEN SavedCache(response.ids) ELSE cache]

\* a save that writes whatever is already there
save_command_output_overwriting(tree, command_id, d) ==
    [tree EXCEPT ![d.slot] = [json |-> Sidecar(command_id, "none"),
                              txt |-> Text(d.size)]]

\* _save_command_output: an adequate text file is left alone, otherwise the
\* sidecar and the text file are written
save_command_output(tree, command_id, d) ==
    IF tree[d.slot].txt.exists /\ tree[d.slot].txt.size > min_text_bytes
    THEN tree
    ELSE [tree EXCEPT ![d.slot] = [json |-> Sidecar(command_id, "none"),
                                   txt |-> Text(d.size)]]

NoSkipInfo == [skip |-> FALSE, slot |-> "none"]

\* lines 376-388: the save returns 'skipped': True and writes nothing
save_skipped(tree, d) ==
    tree[d.slot].txt.exists /\ tree[d.slot].txt.size > min_text_bytes

\* lines 560-562 and 820-846: the counters of a run, and what the run
\* returns and merges into the ledger as commands_info
NoCounts == [successful_downloads |-> 0, skipped_downloads |-> 0]
NoCommandsResult ==
    [returned |-> FALSE, commands_downloaded |-> 0, commands_skipped |-> 0,
     total_commands |-> 0, successfully_downloaded |-> 0,
     skipped_downloads |-> 0, total_available |-> 0]

\* lines 620-665: a fetched command with output adds one to
\* skipped_downloads when its save was skipped, and one to
\* successful_downloads in either case
count_fetched(counts, d, skipped) ==
    IF d.kind # "output" THEN counts
    ELSE [counts EXCEPT
            !.skipped_downloads = IF skipped THEN @ + 1 ELSE @,
            !.successful_downloads = @ + 1]

CommandsInit ==
    /\ store = <<>>
    /\ now = 0
    /\ ops = 0
    /\ last = NoLast
    /\ inp \in [first : Listings, later : Listings,
                details : [CommandIds -> CommandDetails]]
    /\ \E c \in {NoCache, CorruptCache}, t \in CommandTrees :
        out = [run |-> "first", pc |-> "start", cache |-> c, tree |-> t,
               source |-> "none", list |-> <<>>, next |-> 1,
               skip |-> NoSkipInfo, downloaded |-> <<>>, events |-> <<>>,
               counts |-> NoCounts, result |-> NoCommandsResult]

Event(e, id) == [run |-> out.run, e |-> e, id |-> id]

\* lines 492-553: obtain the listing, or return when there is none
CommandsListing ==
    /\ out.pc = "start"
    /\ LET response == IF out.run = "first" THEN inp.first ELSE inp.later
           a == available_commands(out.cache, response)
           requested == IF a.source = "api"
                        THEN <<Event("listing_request", "")>> ELSE <<>>
           saved == IF a.cache # out.cache
                    THEN <<Event("listing_saved", "")>> ELSE <<>>
       IN out' = [out EXCEPT
                    !.source = a.source,
                    !.cache = a.cache,
                    !.events = @ \o requested \o saved,
                    !.list = IF truthy_listing(a.available)
                             THEN a.available.ids ELSE <<>>,
                    !.next = 1,
                    !.downloaded = <<>>,
                    !.counts = NoCounts,
                    !.pc = IF truthy_listing(a.available) THEN "loop"
                           ELSE "finished"]
    /\ UNCHANGED <<store, now, ops, last, inp>>

\* line 582: the skip test of the next command
CommandsSkipTest ==
    /\ out.pc = "loop"
    /\ out.next <= Len(out.list)
    /\ \E r \in should_skip_command_download(out.tree, out.list[out.next]) :
        out' = [out EXCEPT !.pc = "tested", !.skip = r,
                           !.events = Append(@, Event("skip_test",
                                                      out.list[out.next]))]
    /\ UNCHANGED <<store, now, ops, last, inp>>

\* lines 584-603: the command is skipped
CommandsSkipped ==
    /\ out.pc = "tested"
    /\ out.skip.skip
    /\ out' = [out EXCEPT
                 !.pc = "loop", !.next = @ + 1, !.skip = NoSkipInfo,
                 !.counts.skipped_downloads = @ + 1,
                 !.downloaded = Append(@, [id |-> out.list[out.next],
                                           status |-> "skipped",
                                           slot |-> out.skip.slot,
                                           skipped |-> TRUE])]
    /\ UNCHANGED <<store, now, ops, last, inp>>

\* lines 604-690: the detail request and the save of its output
CommandsFetch ==
    /\ out.pc = "tested"
    /\ ~out.skip.skip
    /\ LET id == out.list[out.next]
           d == inp.details[id]
       IN out' = [out EXCEPT
                    !.pc = "loop", !.next = @ + 1, !.skip = NoSkipInfo,
                    !.events = Append(@, Event("detail_request", id)),
                    !.tree = IF d.kind = "output"
                             THEN save_command_output(@, id, d) ELSE @,
                    !.counts = count_fetched(@, d,
                                 d.kind = "output" /\ save_skipped(out.tree, d)),
                    !.downloaded = Append(@, [id |-> id,
                                              status |-> d.kind,
                                              slot |-> d.slot,
                                              skipped |-> d.kind = "output" /\
                                                  save_skipped(out.tree, d)])]
    /\ UNCHANGED <<store, now, ops, last, inp>>

\* lines 820-846: the loop is over, the counters go into commands_info and
\* into the returned record
CommandsReturn ==
    /\ out.pc = "loop"
    /\ out.next > Len(out.list)
    /\ out' = [out EXCEPT
                 !.pc = "finished",
                 !.result = [returned |-> TRUE,
                             commands_downloaded |-> out.counts.successful_downloads,
                             commands_skipped |-> out.counts.skipped_downloads,
                             total_commands |-> Len(out.list),
                             successfully_downloaded |-> out.counts.successful_downloads,
                             skipped_downloads |-> out.counts.skipped_downloads,
                             total_available |-> Len(out.list)]]
    /\ UNCHANGED <<store, now, ops, last, inp>>

\* the later run starts on what the first run left on disk
CommandsLaterRun ==
    /\ out.pc = "finished"
    /\ out.run = "first"
    /\ out' = [out EXCEPT !.run = "later", !.pc = "start", !.source = "none",
                          !.list = <<>>, !.next = 1, !.downloaded = <<>>,
                          !.counts = NoCounts, !.result = NoCommandsResult]
    /\ UNCHANGED <<store, now, ops, last, inp>>

CommandsNext ==
    \/ CommandsListing
    \/ CommandsSkipTest
    \/ CommandsSkipped
    \/ CommandsFetch
    \/ CommandsReturn
    \/ CommandsLaterRun

SpecCommands == CommandsInit /\ [][CommandsNext]_vars

\* the identifiers the current run has skipped so far, with their files
SkippedNow ==
    {out.downloaded[i] : i \in {j \in 1..Len(out.downloaded) :
                                    out.downloaded[j].status = "skipped"}}

EventsOf(run, e) ==
    SelectSeq(out.events, LAMBDA v : v.run = run /\ v.e = e)

EventIds(q) == [i \in 1..Len(q) |-> q[i].id]

(***************************************************************************)
(* C19  The skip test precedes the network call: every detail request of a *)
(* run comes right after the skip test of the same command in that run; a  *)
(* command whose skip test held gets no detail request in that run, and    *)
(* its saved text and JSON files stay as they were for the rest of the run.*)
(***************************************************************************)
C19_SkipBeforeRequest ==
    /\ [](\A i \in 1..Len(out.events) :
            out.events[i].e = "detail_request" =>
                /\ i > 1
                /\ out.events[i - 1] = [out.events[i] EXCEPT !.e = "skip_test"])
    /\ [](\A d \in SkippedNow :
            \A i \in 1..Len(out.events) :
                ~(/\ out.events[i].run = out.run
                  /\ out.events[i].e = "detail_request"
                  /\ out.events[i].id = d.id))
    /\ [][\A d \in SkippedNow :
            out'.run = out.run => out'.tree[d.slot] = out.tree[d.slot]]_vars

C19_Witness ==
    /\ out.pc = "finished"
    /\ Len(out.downloaded) = 2
    /\ out.downloaded[1].status = "skipped"
    /\ out.downloaded[2].status = "output"
    /\ out.downloaded[2].slot = out.downloaded[1].slot

(***************************************************************************)
(* C20  Command listing cache: when the first run fetched the listing and  *)
(* saved it to commands.json, the later run, finding the file readable,    *)
(* sends no listing request and processes exactly the list in the file.    *)
(***************************************************************************)
C20_ListingCache ==
    (/\ out.run = "later"
     /\ out.pc # "start"
     /\ Len(EventsOf("first", "listing_saved")) = 1)
    => /\ out.cache.k = "json"
       /\ out.source = "file"
       /\ EventsOf("later", "listing_request") = <<>>
       /\ out.list = out.cache.list
       /\ out.cache.list = inp.first.ids
       /\ out.pc = "finished" =>
            EventIds(EventsOf("later", "skip_test")) = out.cache.list

C20_Witness ==
    /\ out.run = "later"
    /\ out.pc = "finished"
    /\ Len(EventsOf("first", "listing_saved")) = 1
    /\ Len(out.cache.list) = 2
    /\ ~inp.later.none
    /\ inp.later.ids # inp.first.ids
    /\ Len(EventsOf("later", "detail_request")) > 0
\* the detail records that are missing or empty
EmptyDetails == {d \in Details : d = Null \/ d = Map(EmptyDict)}

(***************************************************************************)
(* C21  Required-input absence is signalled immediately: a metadata-first  *)
(* initialisation called with a missing or empty detail record raises and  *)
(* leaves the store as it was: no directory made, no ledger written.       *)
(***************************************************************************)
C21_MissingDetailRaisesFirst ==
    [][\A id \in Ids, d \in EmptyDetails :
          InitializeMetadataFirst(id, d) =>
              /\ last'.raised
              /\ store' = store
              /\ now' = now]_vars

C21_Witness ==
    /\ last.op = "create"
    /\ last.raised
    /\ "unknown_device" \notin DOMAIN store
    /\ \E d \in DOMAIN store : store[d].meta.k = "json"
\* the ledger document is in its initial state for identifier id and detail d
InitialLedger(doc, id, d) ==
    /\ \A f \in DOMAIN doc["processing_status"].v :
          doc["processing_status"].v[f] = Bool(FALSE)
    /\ \A c \in DOMAIN doc["file_counts"].v :
          doc["file_counts"].v[c] = Num(0)
    /\ doc["created_timestamp"] = doc["last_updated"]
    /\ doc["qkview_id"] = Str(id)
    /\ doc["api_data"] = d

(***************************************************************************)
(* C22  Ledger initial state: the ledger an initialisation writes has      *)
(* every processing_status flag false, every file_counts counter zero,     *)
(* created_timestamp equal to last_updated, the identifier as qkview_id    *)
(* and the detail record unchanged as api_data.                            *)
(***************************************************************************)
C22_LedgerInitialState ==
    [][/\ \A id \in Ids, d \in Details :
            (InitializeMetadataFirst(id, d) /\ ~last'.raised) =>
                InitialLedger(store'[last'.dir].meta.doc, id, d)
       /\ \A id \in Ids, d \in LegacyDetails :
            InitializeLegacy(id, d) =>
                InitialLedger(store'[last'.dir].meta.doc, id, d)]_vars
(***************************************************************************)
(* SpecStructure: create_qkview_directory_structure_by_hostname and        *)
(* create_qkview_directory_structure on one Local Name, with the files the *)
(* program writes below the directory in between.                          *)
(*   inp = [name]: the Local Name (hostname or identifier)                 *)
(*   out = [tree, calls, paths, raised]                                    *)
(*   tree = [exists, dirs, files]: the directory, its subdirectories and   *)
(*   the content of each file ("absent" when there is none)                *)
(***************************************************************************)
subdirectories ==
    <<"Diagnostics", "LTM", "GTM", "APM", "ASM", "iRules", "System",
      "Configuration", "Commands", "Graphs", "Logs", "Logs/search_results",
      "Docs">>

StructureFiles == {"metadata.json", "Docs/api_response.json"}
ParentOf(f) == IF f = "metadata.json" THEN "" ELSE "Docs"

Range(q) == {q[i] : i \in 1..Len(q)}

\* a mkdir that fails on a directory that is already there
mkdir_strict(t, p) ==
    IF t.raised THEN t
    ELSE IF (p \in DOMAIN t.files /\ t.files[p] # "absent")
            \/ (p = "" /\ t.exists) \/ p \in t.dirs
    THEN [t EXCEPT !.raised = TRUE]
    ELSE IF p = "" THEN [t EXCEPT !.exists = TRUE]
    ELSE [t EXCEPT !.dirs = @ \cup {p} \cup
                      (IF p = "Logs/search_results" THEN {"Logs"} ELSE {})]

\* Path.mkdir(parents=True, exist_ok=True): raises only when the path is a
\* regular file; "" is the directory of the Local Name itself
mkdir(t, p) ==
    IF t.raised THEN t
    ELSE IF p \in DOMAIN t.files /\ t.files[p] # "absent"
    THEN [t EXCEPT !.raised = TRUE]
    ELSE IF p = "" THEN [t EXCEPT !.exists = TRUE]
    ELSE [t EXCEPT !.dirs = @ \cup {p} \cup
                      (IF p = "Logs/search_results" THEN {"Logs"} ELSE {})]

RECURSIVE mkdir_all(_, _)
mkdir_all(t, q) == IF q = <<>> THEN t ELSE mkdir_all(mkdir(t, Head(q)), Tail(q))

\* the body of both functions: the directory, then each subdirectory
create_structure(t) == mkdir_all(mkdir(t, ""), subdirectories)

NoTree == [exists |-> FALSE, dirs |-> {},
           files |-> [f \in StructureFiles |-> "absent"], raised |-> FALSE]

\* the trees a creation leaves when it is ended after k subdirectories
PartialTrees ==
    {NoTree} \cup
    {mkdir_all(mkdir(NoTree, ""), SubSeq(subdirectories, 1, k)) :
        k \in 0..Len(subdirectories)}

StructureInit ==
    /\ store = <<>>
    /\ now = 0
    /\ ops = 0
    /\ last = NoLast
    /\ inp \in [name : {"lb1.ex", "123"}]
    /\ \E t \in PartialTrees :
        out = [tree |-> t, calls |-> "none", paths |-> {}, raised |-> FALSE]

CreateStructure ==
    /\ LET t == create_structure(out.tree)
       IN out' = [tree |-> [t EXCEPT !.raised = FALSE],
                  calls |-> IF out.calls = "none" THEN "one" ELSE "many",
                  paths |-> IF t.raised THEN out.paths
                            ELSE out.paths \cup {inp.name},
                  raised |-> out.raised \/ t.raised]
    /\ UNCHANGED <<store, now, ops, last, inp>>

CreateStructureByHostname ==
    /\ inp.name = "lb1.ex"
    /\ CreateStructure

CreateStructureById ==
    /\ inp.name = "123"
    /\ CreateStructure

\* the ledger and the saved detail record are written and rewritten
WriteStructureFile ==
    /\ \E f \in StructureFiles, c \in {"v1", "v2"} :
        /\ out.tree.exists
        /\ ParentOf(f) = "" \/ ParentOf(f) \in out.tree.dirs
        /\ out.tree.files[f] # c
        /\ out' = [out EXCEPT !.tree.files[f] = c]
    /\ UNCHANGED <<store, now, ops, last, inp>>

StructureNext ==
    \/ CreateStructureByHostname
    \/ CreateStructureById
    \/ WriteStructureFile

SpecStructure == StructureInit /\ [][StructureNext]_vars

(***************************************************************************)
(* C23  Idempotent directory creation: however often the structure is      *)
(* created for one Local Name, no call raises, every call returns the same *)
(* path, the subdirectories after a call are exactly the fixed set, and a  *)
(* call leaves the files already in the directory as they were.            *)
(***************************************************************************)
C23_IdempotentCreation ==
    /\ [](~out.raised /\ Cardinality(out.paths) <= 1)
    /\ [](out.calls # "none" =>
            out.tree.exists /\ out.tree.dirs = Range(subdirectories))
    /\ [][out'.calls # out.calls =>
            /\ out'.tree.files = out.tree.files
            /\ out.tree.dirs \subseteq out'.tree.dirs
            /\ out.calls # "none" => out'.tree = out.tree]_vars

C23_Witness ==
    /\ out.calls = "many"
    /\ out.paths = {"lb1.ex"}
    /\ out.tree.files["metadata.json"] = "v2"
    /\ out.tree.files["Docs/api_response.json"] = "v1"
(***************************************************************************)
(* C24  Orchestration entry points never raise: whatever the transport     *)
(* returns for each request, download_diagnostic_reports comes back with   *)
(* its file map and propagates no exception.                               *)
(***************************************************************************)
C24_EntryPointsNeverRaise ==
    out.pc = "done" => ~out.raised
(***************************************************************************)
(* SpecConcurrent: two calls of update_qkview_metadata on one ledger, each *)
(* split at the point between its read (json.load, line 353) and its write *)
(* (json.dump, line 368).                                                  *)
(*   inp = [updates]: the update of each caller                            *)
(*   out = [pc, local, order]: where each caller is, the document it read, *)
(*   and the reads and writes in the order they happened                   *)
(***************************************************************************)
Callers == {"diagnostics", "download"}

CallerUpdates ==
    [c \in Callers |->
        IF c = "diagnostics"
        THEN [processing_status |-> Map([diagnostics |-> Bool(TRUE)])]
        ELSE [processing_status |-> Map([qkview_downloaded |-> Bool(TRUE)])]]

\* a write that merges into the ledger as it is at the time of the write
write_back_rereading(ledger, local, updates, t) == merged_metadata(ledger, updates, t)

\* lines 356-369: the updates are merged into the document that was read,
\* and the result replaces the file
write_back(ledger, local, updates, t) == merged_metadata(local, updates, t)

ConcurrentInit ==
    /\ store \in DownloadStores \ {<<>>}
    /\ now = 0
    /\ ops = 0
    /\ last = NoLast
    /\ inp \in [qkview_id : {GateId},
                updates : {CallerUpdates,
                           [CallerUpdates EXCEPT !["diagnostics"] = diagnostics_update]}]
    /\ out = [pc |-> [c \in Callers |-> "start"],
              local |-> [c \in Callers |-> EmptyDict],
              order |-> <<>>]

\* lines 334-354: find the directory and load the ledger
ReadLedger(c) ==
    /\ out.pc[c] = "start"
    /\ \E r \in find_qkview_directory(store, inp.qkview_id) :
        /\ r.found
        /\ out' = [out EXCEPT !.pc[c] = "read",
                              !.local[c] = store[r.dir].meta.doc,
                              !.order = Append(@, <<"read", c>>)]
    /\ UNCHANGED <<store, now, ops, last, inp>>

\* lines 356-369: merge and write back
WriteLedger(c) ==
    /\ out.pc[c] = "read"
    /\ \E r \in find_qkview_directory(store, inp.qkview_id), t \in Later(now) :
        /\ r.found
        /\ store' = write_metadata(store, r.dir,
                        write_back(store[r.dir].meta.doc, out.local[c],
                                   inp.updates[c], t))
        /\ now' = t
    /\ out' = [out EXCEPT !.pc[c] = "written",
                          !.order = Append(@, <<"write", c>>)]
    /\ UNCHANGED <<ops, last, inp>>

ConcurrentNext ==
    \/ \E c \in Callers : ReadLedger(c)
    \/ \E c \in Callers : WriteLedger(c)

SpecConcurrent == ConcurrentInit /\ [][ConcurrentNext]_vars

BothWritten == \A c \in Callers : out.pc[c] = "written"

\* both callers read before either wrote
ReadsBeforeWrites == out.order[1][1] = "read" /\ out.order[2][1] = "read"

FlagSet(flag) ==
    store["lb1.ex"].meta.doc["processing_status"].v[flag] = Bool(TRUE)

(***************************************************************************)
(* C25  The ledger merge is not atomic: when both merges read before       *)
(* either writes back, the flag of the one that wrote first is lost in the *)
(* final ledger; when the merges run one after the other, both flags are   *)
(* in the final ledger.                                                    *)
(***************************************************************************)
C25_MergeNotAtomic ==
    BothWritten =>
        IF ReadsBeforeWrites
        THEN LET first == out.order[3][2]
             IN /\ first = "diagnostics" =>
                     ~FlagSet("diagnostics") /\ FlagSet("qkview_downloaded")
                /\ first = "download" =>
                     FlagSet("diagnostics") /\ ~FlagSet("qkview_downloaded")
        ELSE FlagSet("diagnostics") /\ FlagSet("qkview_downloaded")

C25_Witness ==
    /\ BothWritten
    /\ ReadsBeforeWrites
    /\ out.order[3][2] = "download"
    /\ ~FlagSet("qkview_downloaded")
    /\ FlagSet("diagnostics")
\* the directories whose ledger records the identifier
RecordingDirs(st, qkview_id) ==
    {d \in DOMAIN st : LedgerRecords(st, d, qkview_id)}

(***************************************************************************)
(* C26  Identifier-to-directory uniqueness: after any sequence of creates  *)
(* and merges at most one directory has a ledger recording a given         *)
(* identifier, so resolve has one possible result.                         *)
(***************************************************************************)
C26_IdentifierUniqueness ==
    \A id \in Ids :
        /\ Cardinality(RecordingDirs(store, id)) <= 1
        /\ Cardinality(find_qkview_directory(store, id)) = 1
(***************************************************************************)
(* C27  Create for one identifier does not disturb another: when resolve   *)
(* of a returns a directory before a create for another identifier b, it   *)
(* returns the same directory afterwards and the ledger of a is unchanged, *)
(* also when the detail record of b yields the Local Name of a.            *)
(***************************************************************************)
C27_CreateFrame ==
    [][\A a \in Ids, b \in Ids, d \in Details :
          (a # b /\ InitializeMetadataFirst(b, d)) =>
              \A r \in find_qkview_directory(store, a) :
                  r.found =>
                      /\ find_qkview_directory(store', a) = {r}
                      /\ store'[r.dir].meta = store[r.dir].meta]_vars
(***************************************************************************)
(* The archive file name.  A date string is the local time of a timestamp  *)
(* given in milliseconds, printed to the second; it is kept here as the    *)
(* count of whole seconds.  The records of this model carry no date field  *)
(* other than generation_date.                                             *)
(***************************************************************************)
NoDate == [none |-> TRUE, seconds |-> 0]
DateOf(ms) == [none |-> FALSE, seconds |-> ms \div 1000]

\* _extract_creation_date_from_qkview_data, lines 232-243
extract_creation_date_from_qkview_data(qkview_data) ==
    IF ~Truthy(qkview_data) \/ ~IsDict(qkview_data) THEN NoDate
    ELSE IF /\ "generation_date" \in DOMAIN qkview_data.v
            /\ Truthy(qkview_data.v["generation_date"])
            /\ int_converts(qkview_data.v["generation_date"])
    THEN DateOf(PyInt(qkview_data.v["generation_date"]))
    ELSE NoDate

\* _get_generation_date_from_metadata, lines 181-219
get_generation_date_from_metadata(st, qkview_id) ==
    {IF ~r.found \/ st[r.dir].meta.k # "json" THEN NoDate
     ELSE LET doc == st[r.dir].meta.doc
          IN IF "api_data" \in DOMAIN doc /\ IsDict(doc["api_data"])
             THEN extract_creation_date_from_qkview_data(doc["api_data"])
             ELSE NoDate :
     r \in find_qkview_directory(st, qkview_id)}

\* a file name dated by the ledger's last update
generate_qkview_filename_by_update(st, qkview_id, qkview_data) ==
    {[hostname |-> download_extract_hostname(qkview_data),
      date |-> IF r.found THEN st[r.dir].meta.doc["last_updated"].v ELSE ""] :
     r \in find_qkview_directory(st, qkview_id)}

\* _generate_qkview_filename, lines 306-321: the hostname of the detail
\* record and the date of the ledger, else of the detail record, else none
generate_qkview_filename(st, qkview_id, qkview_data) ==
    {[hostname |-> download_extract_hostname(qkview_data),
      date |-> IF d.none
               THEN extract_creation_date_from_qkview_data(qkview_data)
               ELSE d] :
     d \in get_generation_date_from_metadata(st, qkview_id)}

(***************************************************************************)
(* SpecRedownload: download_qkview_file twice in a row for one identifier  *)
(* with the same detail record; the steps of a run are those of            *)
(* SpecDownload.                                                           *)
(*   inp = [qkview_id, qkview_data, authenticated, responses]              *)
(*   out = the record of SpecDownload with run, filename, and first: the   *)
(*   file name, file and store the first run left                          *)
(***************************************************************************)
RedownloadStores ==
    {<<>>} \cup
    {write_metadata(mkdirs(<<>>, "lb1.ex"), "lb1.ex",
        create_metadata_first_document(GateId, "lb1.ex", d, 0, 0)) :
        d \in {Map(MkDict([id |-> Str(GateId), hostname |-> Str("lb1.ex"),
                           file_size |-> fs, generation_date |-> g])) :
                  fs \in {Absent, Num(12000000)},
                  g \in {Absent, Num(1000)}}}

RedownloadDetails ==
    {Map(MkDict([id |-> Str(GateId), hostname |-> Str("lb1.ex"),
                 generation_date |-> g])) :
        g \in {Absent, Num(1500), Num(2000)}}

RedownloadResponses ==
    {<<a, b>> :
        a \in {[status |-> 0, size |-> 0], [status |-> 404, size |-> 0],
               [status |-> 202, size |-> 0]} \cup
              {[status |-> 200, size |-> n] :
                  n \in {0, 5, 12000000, 13200000, 13200001}},
        b \in {[status |-> 0, size |-> 0]} \cup
              {[status |-> 200, size |-> n] : n \in {0, 5, 12000000}}}

RedownloadInit ==
    /\ store \in RedownloadStores
    /\ now = 0
    /\ ops = 0
    /\ last = NoLast
    /\ inp \in [qkview_id : {GateId}, qkview_data : RedownloadDetails,
                authenticated : BOOLEAN, responses : RedownloadResponses]
    /\ \E f \in {[exists |-> FALSE, size |-> 0], [exists |-> TRUE, size |-> 5]},
          n \in generate_qkview_filename(store, inp.qkview_id, inp.qkview_data) :
        out = [pc |-> "unresolved", fetch |-> FetchIdle, file |-> f,
               result |-> NoResult, trace |-> <<"UNRESOLVED">>,
               run |-> "first", filename |-> n,
               first |-> [filename |-> n, file |-> f, store |-> store]]

\* the second call: the file name is computed again from the ledger as the
\* first call left it; another name denotes a file that is not there
DownloadAgain ==
    /\ out.run = "first"
    /\ out.pc \in {"done", "skipped", "failed"}
    /\ \E n \in generate_qkview_filename(store, inp.qkview_id, inp.qkview_data) :
        out' = [out EXCEPT
                  !.run = "later", !.pc = "unresolved", !.fetch = FetchIdle,
                  !.result = NoResult, !.trace = <<"UNRESOLVED">>,
                  !.filename = n,
                  !.file = IF n = out.filename THEN out.file
                           ELSE [exists |-> FALSE, size |-> 0],
                  !.first = [filename |-> out.filename, file |-> out.file,
                             store |-> store, pc |-> out.pc]]
    /\ UNCHANGED <<store, now, ops, last, inp>>

RedownloadNext ==
    \/ DownloadResolve
    \/ DownloadGate
    \/ DownloadFetchFirst
    \/ DownloadFetchWait
    \/ DownloadFetchSecond
    \/ DownloadSave
    \/ DownloadValidateAndRecord
    \/ DownloadAgain

SpecRedownload == RedownloadInit /\ [][RedownloadNext]_vars

\* the first call persisted an archive of at least the floor and within 10
\* percent of the expected size the ledger records, if it records one
FirstRunAdequate ==
    /\ out.run = "later"
    /\ out.first.pc = "done"
    /\ out.first.file.size >= 10485760
    /\ RecordedExpected # Null =>
          10 * Abs(out.first.file.size - RecordedExpected.v) <= RecordedExpected.v

(***************************************************************************)
(* C28  Archive download is idempotent across runs: after a call that      *)
(* persisted an adequate archive, the next call with the same detail       *)
(* record computes the same file name, sends no request, leaves the file   *)
(* and the ledger as they were, and returns success with skipped = true.   *)
(***************************************************************************)
C28_RedownloadSkips ==
    FirstRunAdequate =>
        /\ out.filename = out.first.filename
        /\ out.fetch.requests = 0
        /\ out.file = out.first.file
        /\ store = out.first.store
        /\ out.pc \in {"unresolved", "directory_ready", "skipped"}
        /\ out.result.returned => out.result.success /\ out.result.skipped

C28_Witness ==
    /\ FirstRunAdequate
    /\ out.pc = "skipped"
    /\ out.first.file.size = 13200000
    /\ RecordedExpected = Num(12000000)
    /\ ~out.filename.date.none

\* the fetch of this call has returned without content: the transport
\* failed, or its last response had an empty body
FetchGaveNothing ==
    /\ out.fetch.pc = "done"
    /\ out.fetch.result.none \/ out.fetch.result.size = 0

\* the call could not resolve the directory of the identifier
DirectoryUnresolved ==
    /\ out.pc # "unresolved"
    /\ \A r \in find_qkview_directory(store, inp.qkview_id) : ~r.found

\* the file and the ledger are as they were when this call began
AsTheCallBegan ==
    /\ out.file = out.first.file
    /\ store = out.first.store
    /\ "PERSISTED" \notin Range(out.trace)

(***************************************************************************)
(* C29  State is unchanged on a failed archive fetch: when the transport   *)
(* fails or ends with an empty body (the 202 retry included), or the       *)
(* directory cannot be resolved, the call returns success = false, the     *)
(* previous archive file and the ledger are as before; an unresolved       *)
(* directory means no transport request at all.                            *)
(***************************************************************************)
C29_FailedFetchKeepsState ==
    /\ FetchGaveNothing =>
          /\ out.result = Failure("Failed to download QKView file")
          /\ out.pc = "failed"
          /\ AsTheCallBegan
    /\ DirectoryUnresolved =>
          /\ out.result = Failure("Directory not found")
          /\ out.pc = "failed"
          /\ out.fetch.requests = 0
          /\ AsTheCallBegan

C29_Witness ==
    /\ FetchGaveNothing
    /\ out.fetch.requests = 2
    /\ out.fetch.result.size = 0 /\ ~out.fetch.result.none
    /\ out.first.file.exists
    /\ out.result.returned /\ ~out.result.success

\* the commands of the finished run that are counted in both counters
CountedTwice ==
    {i \in 1..Len(out.downloaded) :
        out.downloaded[i].status = "output" /\ out.downloaded[i].skipped}

(***************************************************************************)
(* C30  Command counters are consistent: in the record a run returns and   *)
(* in the commands_info it merges into the ledger, downloaded plus skipped *)
(* is at most the total, and no command is counted in both counters.       *)
(***************************************************************************)
C30_CountersConsistent ==
    out.result.returned =>
        /\ out.result.commands_downloaded + out.result.commands_skipped
              <= out.result.total_commands
        /\ out.result.successfully_downloaded + out.result.skipped_downloads
              <= out.result.total_available
        /\ CountedTwice = {}
====
